---- MODULE Spec2Model ----
(***************************************************************************)
(* Workload analytics.  Backend: the Express routes, middleware and        *)
(* handlers of src/backend/src over the two MongoDB collections (users,    *)
(* workload entries).  A request is handled to completion in one step (the *)
(* claims about sequential requests); the request context (req, res)       *)
(* exists only while a request is being answered and is dropped by Finish. *)
(* Two deleteUser requests interleaved at their await points are modelled  *)
(* by flights.  Frontend: the AuthProvider context and the Dashboard and   *)
(* ProjectSummary pages, with the asynchronous calls they have in flight.  *)
(***************************************************************************)
EXTENDS Integers, Sequences, FiniteSets, TLC

VARIABLES
  users,        \* the users collection: _id -> document
  entries,      \* the workload collection: _id -> document
  nextUserId,   \* the next fresh ObjectId of a user document
  nextEntryId,  \* the next fresh ObjectId of a workload document
  req,          \* the request being answered (op = "none" between requests)
  res,          \* its response: status, the chain of middleware that ran, body
  pre,          \* the collections as they were when the request arrived
  createdBy,    \* history: the user whose request created each workload entry
  loggedOut,    \* history: the users whose token went through a successful logout
  flights,      \* the deleteUser requests in progress side by side
  storedToken,  \* frontend: localStorage 'token'
  authHeader,   \* frontend: axios.defaults.headers.common['Authorization']
  currentUser,  \* AuthProvider state: user
  loading,      \* AuthProvider state: loading
  error,        \* AuthProvider state: error
  calls,        \* AuthProvider: the asynchronous calls that have not settled yet
  signedOut,    \* history: logout has finished and no login or register began since
  lastSettled,  \* history: the AuthProvider call that settled last, and how
  summaryPage,  \* the ProjectSummary page: its state and its request in flight
  dashboard,    \* the Dashboard page: its state and its requests in flight
  minutes       \* minutes elapsed since the pages were mounted

serverVars == <<users, entries, nextUserId, nextEntryId, req, res, pre, createdBy,
                loggedOut>>
providerVars == <<storedToken, authHeader, currentUser, loading, error, calls,
                  signedOut, lastSettled>>
pageVars == <<summaryPage, dashboard, minutes>>
clientVars == <<providerVars, pageVars>>

vars == <<serverVars, flights, clientVars>>

\* ------------------------------------------------------------------ bounds
MaxUsers == 2
MaxEntries == 1

\* ------------------------------------------------------- JSON / JS values
\* An optional field or parameter: <<>> when absent (JS undefined), <<v>> when given.
None == <<>>
Some(v) == <<v>>
Has(f) == f # <<>>
Val(f) == f[1]
Opt(S) == {None} \cup {Some(v) : v \in S}

Roles == {"admin", "user", "manager"}

\* typeof v === 'boolean', on the JSON literals a body may carry for isActive
IsJsBoolean(v) == v \in {"true", "false"}

\* ---------------------------------------------------------------- tokens
\* A bearer token: the user id in its payload, and whether jwt.verify accepts it.
NoToken == [uid |-> 0, kind |-> "missing"]
TokenKinds == {"valid", "expired", "forged"}

jwtVerifyOk(tok) == tok.kind = "valid"

\* ------------------------------------------------------------ User model
\* bcrypt hash of a password, and the comparison against a stored hash
Hash(pw) == "bcrypt(" \o pw \o ")"
comparePassword(doc, candidate) == Hash(candidate) = doc.password

\* user.getPublicProfile(): the document without its credential
getPublicProfile(id, doc) ==
  [_id |-> id, username |-> doc.username, email |-> doc.email,
   role |-> doc.role, isActive |-> doc.isActive, lastLogin |-> doc.lastLogin]

\* .select('-password') and populate(..., '-password'): every field but password
selectNoPasswordMutant(id, doc) ==
  [_id |-> id, username |-> doc.username, email |-> doc.email,
   password |-> doc.password,
   role |-> doc.role, isActive |-> doc.isActive, lastLogin |-> doc.lastLogin]

selectNoPassword(id, doc) ==
  [_id |-> id, username |-> doc.username, email |-> doc.email,
   role |-> doc.role, isActive |-> doc.isActive, lastLogin |-> doc.lastLogin]

AdminIds(U) == {i \in DOMAIN U : U[i].role = "admin"}

\* ------------------------------------------------------------- responses
NoBody == [kind |-> "none"]
ErrorBody(msg) == [kind |-> "error", error |-> msg]
ErrorsBody(errs) == [kind |-> "errors", errors |-> errs]
MessageBody(msg) == [kind |-> "message", message |-> msg]

\* What a middleware or handler hands back: either next() (status 0) or a reply.
CallNext(user) == [status |-> 0, body |-> NoBody, user |-> user]
Reply(status, body) == [status |-> status, body |-> body, user |-> 0]

\* ------------------------------------------------------------ middleware
\* auth: the token is read, verified, and its user loaded if active
authMutant(tok, U) ==
  IF tok.kind = "missing" THEN Reply(401, ErrorBody("Please authenticate"))
  ELSE IF ~jwtVerifyOk(tok) THEN Reply(401, ErrorBody("Please authenticate"))
  ELSE IF tok.uid \notin DOMAIN U
    THEN Reply(401, ErrorBody("Please authenticate"))
  ELSE CallNext(tok.uid)

auth(tok, U) ==
  IF tok.kind = "missing" THEN Reply(401, ErrorBody("Please authenticate"))
  ELSE IF ~jwtVerifyOk(tok) THEN Reply(401, ErrorBody("Please authenticate"))
  ELSE IF tok.uid \notin DOMAIN U \/ ~U[tok.uid].isActive
    THEN Reply(401, ErrorBody("Please authenticate"))
  ELSE CallNext(tok.uid)

\* checkRole(roles): the attached user's role must be one of roles
checkRoleMutant(roles, me, U) == CallNext(me)

checkRole(roles, me, U) ==
  IF U[me].role \notin roles
    THEN Reply(403, ErrorBody("Access denied. Insufficient permissions."))
  ELSE CallNext(me)

\* checkUserAccess: an admin, or the user named by :userId
checkUserAccessMutant(me, targetUserId, U) ==
  IF U[me].role \in {"admin", "manager"} THEN CallNext(me)
  ELSE IF me # targetUserId
    THEN Reply(403, ErrorBody("Access denied. You can only modify your own profile."))
  ELSE CallNext(me)

checkUserAccess(me, targetUserId, U) ==
  IF U[me].role = "admin" THEN CallNext(me)
  ELSE IF me # targetUserId
    THEN Reply(403, ErrorBody("Access denied. You can only modify your own profile."))
  ELSE CallNext(me)

\* ------------------------------------------------------ field validation
\* express-validator's isLength({ min: 3 }) and isEmail() on the strings used here
MinUsernameLen == 3
WellFormedEmails ==
  {"admin@example.com", "user@example.com", "dev@example.com"}
isEmail(s) == s \in WellFormedEmails

\* isBoolean(): the booleans, and the strings and numbers that read as one
isBoolean(v) == v \in {"true", "false", "'true'", "'false'", "1", "0"}

\* userUpdateValidation: every rule is .optional(); the violations are collected
userUpdateValidation(body) ==
  (IF Has(body.username) /\ Len(Val(body.username)) < MinUsernameLen
     THEN {"Username must be at least 3 characters long"} ELSE {})
  \cup (IF Has(body.email) /\ ~isEmail(Val(body.email))
     THEN {"Must be a valid email address"} ELSE {})
  \cup (IF Has(body.role) /\ Val(body.role) \notin {"admin", "user", "manager"}
     THEN {"Invalid role specified"} ELSE {})
  \cup (IF Has(body.isActive) /\ ~isBoolean(Val(body.isActive))
     THEN {"isActive must be a boolean value"} ELSE {})

\* the rule set of POST /api/auth/register
registerValidation(body) ==
  (IF ~Has(body.username) \/ Len(Val(body.username)) < MinUsernameLen
     THEN {"Username must be at least 3 characters long"} ELSE {})
  \cup (IF ~Has(body.email) \/ ~isEmail(Val(body.email))
     THEN {"Must be a valid email address"} ELSE {})
  \cup (IF ~Has(body.password) THEN {"Password is required"} ELSE {})

\* ------------------------------------------------------- helper functions
Max(S) == CHOOSE x \in S : \A y \in S : y <= x
Min2(a, b) == IF a < b THEN a ELSE b
Ceil(a, b) == (a + b - 1) \div b

\* the ids of S as a sequence, greatest first
RECURSIVE SeqDesc(_)
SeqDesc(S) == IF S = {} THEN <<>> ELSE <<Max(S)>> \o SeqDesc(S \ {Max(S)})

\* .skip(skip).limit(limit) of a sorted result; a negative skip is refused by
\* the database before any record is read
PageMutant(s, skip, limit) ==
  IF skip >= Len(s) THEN <<>> ELSE SubSeq(s, skip + 1, Min2(skip + limit + 1, Len(s)))

Page(s, skip, limit) ==
  IF skip >= Len(s) THEN <<>> ELSE SubSeq(s, skip + 1, Min2(skip + limit, Len(s)))

\* { $regex: search, $options: 'i' } on the strings used here
RegexMatches ==
  {<<"ad", "admin">>, <<"ad", "admin@example.com">>,
   <<"example", "admin@example.com">>, <<"example", "user@example.com">>,
   <<"example", "dev@example.com">>}
regexTest(pattern, s) == <<pattern, s>> \in RegexMatches

\* ------------------------------------------------- userController handlers
\* What a handler hands back: the reply and the collections after it.
Out(status, body, U, E) == [status |-> status, body |-> body, users |-> U, entries |-> E]

DefaultPage == 1
DefaultLimit == 10

getUsers(q, U, E) ==
  LET page  == IF Has(q.page) THEN Val(q.page) ELSE DefaultPage
      limit == IF Has(q.limit) THEN Val(q.limit) ELSE DefaultLimit
      match == {i \in DOMAIN U :
                 /\ (Has(q.search) =>
                       \/ regexTest(Val(q.search), U[i].username)
                       \/ regexTest(Val(q.search), U[i].email))
                 /\ (Has(q.role) => U[i].role = Val(q.role))}
      skip  == (page - 1) * limit
      found == Page(SeqDesc(match), skip, limit)
      total == Cardinality(match)
  IN IF skip < 0 THEN Out(500, ErrorBody("Error fetching users"), U, E)
     ELSE
     Out(200,
         [kind |-> "userList",
          users |-> [k \in 1..Len(found) |-> selectNoPassword(found[k], U[found[k]])],
          pagination |-> [total |-> total, page |-> page, pages |-> Ceil(total, limit)]],
         U, E)

getUserById(userId, U, E) ==
  IF userId \notin DOMAIN U THEN Out(404, ErrorBody("User not found"), U, E)
  ELSE Out(200, [kind |-> "user", user |-> selectNoPassword(userId, U[userId])], U, E)

\* the role / isActive part of the update: only an admin requester sets them
adminOnlyUpdatesMutant(me, body, doc, U) ==
  [role |-> IF Has(body.role) THEN Val(body.role) ELSE doc.role,
   isActive |-> IF Has(body.isActive) /\ IsJsBoolean(Val(body.isActive))
                  THEN Val(body.isActive) = "true" ELSE doc.isActive]

adminOnlyUpdates(me, body, doc, U) ==
  IF U[me].role = "admin"
    THEN [role |-> IF Has(body.role) THEN Val(body.role) ELSE doc.role,
          isActive |-> IF Has(body.isActive) /\ IsJsBoolean(Val(body.isActive))
                         THEN Val(body.isActive) = "true" ELSE doc.isActive]
    ELSE [role |-> doc.role, isActive |-> doc.isActive]

\* User.findOne({ $and: [{ _id: { $ne: userId } }, { $or: [{ email }, { username }] }] })
existingOtherUserMutant(userId, body, U) ==
  \E i \in DOMAIN U :
    /\ i # userId
    /\ Has(body.username) /\ U[i].username = Val(body.username)

existingOtherUser(userId, body, U) ==
  \E i \in DOMAIN U :
    /\ i # userId
    /\ \/ Has(body.email) /\ U[i].email = Val(body.email)
       \/ Has(body.username) /\ U[i].username = Val(body.username)

updateUser(me, userId, body, errors, U, E) ==
  IF errors # {} THEN Out(400, ErrorsBody(errors), U, E)
  ELSE IF existingOtherUser(userId, body, U)
    THEN Out(400, ErrorBody("Email or username is already taken"), U, E)
  ELSE IF userId \notin DOMAIN U THEN Out(404, ErrorBody("User not found"), U, E)
  ELSE LET doc == U[userId]
           adm == adminOnlyUpdates(me, body, doc, U)
           new == [doc EXCEPT
                     !.username = IF Has(body.username) THEN Val(body.username) ELSE @,
                     !.email = IF Has(body.email) THEN Val(body.email) ELSE @,
                     !.role = adm.role,
                     !.isActive = adm.isActive]
           U2 == [U EXCEPT ![userId] = new]
       IN Out(200, [kind |-> "user", user |-> selectNoPassword(userId, new)], U2, E)

\* Model.remove() of a loaded document
Remove(C, id) == [i \in DOMAIN C \ {id} |-> C[i]]

\* the guard of deleteUser: the target is an admin and no other admin is left
isLastAdminMutant(userId, U) ==
  U[userId].role = "admin" /\ Cardinality(AdminIds(U)) < 1

isLastAdmin(userId, U) ==
  U[userId].role = "admin" /\ Cardinality(AdminIds(U)) <= 1

deleteUser(userId, U, E) ==
  IF userId \notin DOMAIN U THEN Out(404, ErrorBody("User not found"), U, E)
  ELSE IF isLastAdmin(userId, U)
    THEN Out(400, ErrorBody("Cannot delete the last admin user"), U, E)
  ELSE Out(200, MessageBody("User deleted successfully"), Remove(U, userId), E)

getUserStats(U, E) ==
  LET group(r) == {i \in DOMAIN U : U[i].role = r}
      active(r) == {i \in group(r) : U[i].isActive}
      stats == {[role |-> r, count |-> Cardinality(group(r)),
                 activeUsers |-> Cardinality(active(r)),
                 inactiveUsers |-> Cardinality(group(r)) - Cardinality(active(r))]
                 : r \in {U[i].role : i \in DOMAIN U}}
      totalUsers == Cardinality(DOMAIN U)
      activeUsers == Cardinality({i \in DOMAIN U : U[i].isActive})
  IN Out(200,
         [kind |-> "userStats", totalUsers |-> totalUsers, activeUsers |-> activeUsers,
          inactiveUsers |-> totalUsers - activeUsers, roleDistribution |-> stats],
         U, E)

\* ------------------------------------------------- authController handlers
NewUserId(U) == nextUserId

generateToken(userId) == [uid |-> userId, kind |-> "valid"]

\* User.findOne({ $or: [{ email }, { username }] })
existingUserMutant(body, U) ==
  \E i \in DOMAIN U : U[i].email = Val(body.email)

existingUser(body, U) ==
  \E i \in DOMAIN U :
    \/ U[i].email = Val(body.email)
    \/ U[i].username = Val(body.username)

register(body, errors, U, E) ==
  IF errors # {} THEN Out(400, ErrorsBody(errors), U, E)
  ELSE IF existingUser(body, U)
    THEN Out(400, ErrorBody("User already exists with this email or username"), U, E)
  ELSE LET id == NewUserId(U)
           doc == [username |-> Val(body.username), email |-> Val(body.email),
                   password |-> Hash(Val(body.password)),
                   role |-> IF Has(body.role) THEN Val(body.role) ELSE "user",
                   isActive |-> TRUE, lastLogin |-> "null"]
       IN IF doc.role \notin Roles
            THEN Out(500, ErrorBody("Error creating user"), U, E)
          ELSE Out(201,
                   [kind |-> "session", user |-> getPublicProfile(id, doc),
                    token |-> generateToken(id)],
                   [i \in DOMAIN U \cup {id} |-> IF i = id THEN doc ELSE U[i]], E)

login(body, U, E) ==
  LET found == {i \in DOMAIN U : Has(body.email) /\ U[i].email = Val(body.email)}
  IN IF found = {} THEN Out(401, ErrorBody("Invalid login credentials"), U, E)
     ELSE LET id == CHOOSE i \in found : TRUE
          IN IF ~U[id].isActive THEN Out(401, ErrorBody("Account is deactivated"), U, E)
             ELSE IF ~(Has(body.password) /\ comparePassword(U[id], Val(body.password)))
               THEN Out(401, ErrorBody("Invalid login credentials"), U, E)
             ELSE LET doc == [U[id] EXCEPT !.lastLogin = "date"]
                  IN Out(200,
                         [kind |-> "session", user |-> getPublicProfile(id, doc),
                          token |-> generateToken(id)],
                         [U EXCEPT ![id] = doc], E)

getProfile(me, U, E) ==
  Out(200, [kind |-> "user", user |-> getPublicProfile(me, U[me])], U, E)

logoutMutant(U, E) ==
  Out(200, MessageBody("Logged out successfully"),
      [i \in DOMAIN U |-> [U[i] EXCEPT !.isActive = FALSE]], E)

logout(U, E) == Out(200, MessageBody("Logged out successfully"), U, E)

changePassword(me, body, U, E) ==
  IF ~comparePassword(U[me], body.currentPassword)
    THEN Out(400, ErrorBody("Current password is incorrect"), U, E)
  ELSE Out(200, MessageBody("Password updated successfully"),
           [U EXCEPT ![me].password = Hash(body.newPassword)], E)

\* --------------------------------------------------- WorkloadData model
TaskTypes == {"development", "bug-fix", "review", "meeting", "documentation", "other"}
Statuses == {"planned", "in-progress", "completed", "blocked"}
Priorities == {"high", "medium", "low"}

\* A date is a day number; InvalidDate stands for a string that is no ISO 8601 date.
InvalidDate == 0
isISO8601(d) == d # InvalidDate

\* the schema's validators, run by save(): required, enum, min
schemaValidMutant(doc) ==
  /\ doc.project # ""
  /\ doc.taskName # ""
  /\ doc.taskType \in TaskTypes
  /\ doc.date # InvalidDate
  /\ doc.status \in Statuses
  /\ doc.priority \in Priorities

schemaValid(doc) ==
  /\ doc.project # ""
  /\ doc.taskName # ""
  /\ doc.taskType \in TaskTypes
  /\ doc.hoursSpent >= 0
  /\ doc.date # InvalidDate
  /\ doc.status \in Statuses
  /\ doc.priority \in Priorities

\* populate('developer', '-password'): the owner's document, or null when it is gone
populateDeveloper(devId, U) ==
  IF devId \in DOMAIN U
    THEN Some([_id |-> devId, username |-> U[devId].username, email |-> U[devId].email,
               role |-> U[devId].role, isActive |-> U[devId].isActive,
               lastLogin |-> U[devId].lastLogin])
  ELSE None

populate(id, doc, U) ==
  [_id |-> id, project |-> doc.project, taskName |-> doc.taskName,
   taskType |-> doc.taskType, hoursSpent |-> doc.hoursSpent, date |-> doc.date,
   status |-> doc.status, priority |-> doc.priority,
   developer |-> populateDeveloper(doc.developer, U)]

\* ------------------------------------------- workload routes: validation
workloadCreateValidation(body) ==
  (IF ~Has(body.project) \/ Val(body.project) = ""
     THEN {"Project name is required"} ELSE {})
  \cup (IF ~Has(body.taskName) \/ Val(body.taskName) = ""
     THEN {"Task name is required"} ELSE {})
  \cup (IF ~Has(body.taskType) \/ Val(body.taskType) \notin TaskTypes
     THEN {"Invalid task type"} ELSE {})
  \cup (IF ~Has(body.hoursSpent) \/ Val(body.hoursSpent) < 0
     THEN {"Hours spent must be a positive number"} ELSE {})
  \cup (IF ~Has(body.date) \/ ~isISO8601(Val(body.date))
     THEN {"Invalid date format"} ELSE {})
  \cup (IF ~Has(body.status) \/ Val(body.status) \notin Statuses
     THEN {"Invalid status"} ELSE {})
  \cup (IF ~Has(body.priority) \/ Val(body.priority) \notin Priorities
     THEN {"Invalid priority level"} ELSE {})

workloadUpdateValidation(body) ==
  (IF Has(body.project) /\ Val(body.project) = ""
     THEN {"Project name cannot be empty"} ELSE {})
  \cup (IF Has(body.taskName) /\ Val(body.taskName) = ""
     THEN {"Task name cannot be empty"} ELSE {})
  \cup (IF Has(body.taskType) /\ Val(body.taskType) \notin TaskTypes
     THEN {"Invalid task type"} ELSE {})
  \cup (IF Has(body.hoursSpent) /\ Val(body.hoursSpent) < 0
     THEN {"Hours spent must be a positive number"} ELSE {})
  \cup (IF Has(body.date) /\ ~isISO8601(Val(body.date))
     THEN {"Invalid date format"} ELSE {})
  \cup (IF Has(body.status) /\ Val(body.status) \notin Statuses
     THEN {"Invalid status"} ELSE {})
  \cup (IF Has(body.priority) /\ Val(body.priority) \notin Priorities
     THEN {"Invalid priority level"} ELSE {})

dateRangeValidation(q) ==
  (IF ~Has(q.startDate) \/ ~isISO8601(Val(q.startDate))
     THEN {"Invalid start date format"} ELSE {})
  \cup (IF ~Has(q.endDate) \/ ~isISO8601(Val(q.endDate))
     THEN {"Invalid end date format"} ELSE {})

\* --------------------------------------------- workloadController handlers
NewEntryId(E) == nextEntryId

\* { ...req.body, developer: req.user._id }
withOwnerMutant(body, me) ==
  [developer |-> IF Has(body.developer) THEN Val(body.developer) ELSE me,
   project |-> Val(body.project), taskName |-> Val(body.taskName),
   taskType |-> Val(body.taskType), hoursSpent |-> Val(body.hoursSpent),
   date |-> Val(body.date), status |-> Val(body.status),
   priority |-> Val(body.priority)]

withOwner(body, me) ==
  [developer |-> me,
   project |-> Val(body.project), taskName |-> Val(body.taskName),
   taskType |-> Val(body.taskType), hoursSpent |-> Val(body.hoursSpent),
   date |-> Val(body.date), status |-> Val(body.status),
   priority |-> Val(body.priority)]

createWorkload(me, body, errors, U, E) ==
  IF errors # {} THEN Out(400, ErrorsBody(errors), U, E)
  ELSE LET id == NewEntryId(E)
           doc == withOwner(body, me)
       IN IF ~schemaValid(doc)
            THEN Out(500, ErrorBody("Error creating workload entry"), U, E)
          ELSE Out(201, [kind |-> "workload", workload |-> populate(id, doc, U)],
                   U, [i \in DOMAIN E \cup {id} |-> IF i = id THEN doc ELSE E[i]])

\* the entries of `ids` as a sequence: date descending, then in insertion order
RECURSIVE SortByDateDesc(_, _)
SortByDateDesc(ids, E) ==
  IF ids = {} THEN <<>>
  ELSE LET first == CHOOSE i \in ids :
                      \A j \in ids : \/ E[j].date < E[i].date
                                     \/ E[j].date = E[i].date /\ i <= j
       IN <<first>> \o SortByDateDesc(ids \ {first}, E)

\* the query that getWorkloads builds from the request
workloadQueryMutant(me, q, U, E) ==
  {i \in DOMAIN E :
     /\ (Has(q.startDate) /\ Has(q.endDate) =>
           E[i].date >= Val(q.startDate) /\ E[i].date <= Val(q.endDate))
     /\ (Has(q.project) => E[i].project = Val(q.project))
     /\ (Has(q.status) => E[i].status = Val(q.status))
     /\ (Has(q.taskType) => E[i].taskType = Val(q.taskType))
     /\ (U[me].role # "admin" /\ ~Has(q.project) => E[i].developer = me)}

workloadQuery(me, q, U, E) ==
  {i \in DOMAIN E :
     /\ (Has(q.startDate) /\ Has(q.endDate) =>
           E[i].date >= Val(q.startDate) /\ E[i].date <= Val(q.endDate))
     /\ (Has(q.project) => E[i].project = Val(q.project))
     /\ (Has(q.status) => E[i].status = Val(q.status))
     /\ (Has(q.taskType) => E[i].taskType = Val(q.taskType))
     /\ (U[me].role # "admin" => E[i].developer = me)}

getWorkloads(me, q, U, E) ==
  IF Has(q.startDate) /\ Has(q.endDate)
     /\ (Val(q.startDate) = InvalidDate \/ Val(q.endDate) = InvalidDate)
    THEN Out(500, ErrorBody("Error fetching workload data"), U, E)
  ELSE
  LET page  == IF Has(q.page) THEN Val(q.page) ELSE DefaultPage
      limit == IF Has(q.limit) THEN Val(q.limit) ELSE DefaultLimit
      match == workloadQuery(me, q, U, E)
      skip  == (page - 1) * limit
      found == Page(SortByDateDesc(match, E), skip, limit)
      total == Cardinality(match)
  IN IF skip < 0 THEN Out(500, ErrorBody("Error fetching workload data"), U, E)
     ELSE
     Out(200,
         [kind |-> "workloadList",
          workloads |-> [k \in 1..Len(found) |-> populate(found[k], E[found[k]], U)],
          pagination |-> [total |-> total, page |-> page, pages |-> Ceil(total, limit)]],
         U, E)

RECURSIVE SumHours(_, _)
SumHours(ids, E) ==
  IF ids = {} THEN 0
  ELSE LET i == CHOOSE x \in ids : TRUE
       IN E[i].hoursSpent + SumHours(ids \ {i}, E)

\* WorkloadData.getWorkloadStats(startDate, endDate, developerId): the pipeline
statsPipelineMutant(startDate, endDate, developerId, U, E) ==
  LET match == {i \in DOMAIN E :
                  /\ E[i].date > startDate /\ E[i].date <= endDate
                  /\ (Has(developerId) => E[i].developer = Val(developerId))}
      of(d, t) == {i \in match : E[i].developer = d /\ E[i].taskType = t}
      byType(d) == {[taskType |-> t, totalHours |-> SumHours(of(d, t), E),
                     taskCount |-> Cardinality(of(d, t))]
                     : t \in {E[i].taskType : i \in {j \in match : E[j].developer = d}}}
  IN {[_id |-> d, workloadByType |-> byType(d),
       totalHours |-> SumHours({i \in match : E[i].developer = d}, E),
       developer |-> [_id |-> d, username |-> U[d].username, email |-> U[d].email,
                      role |-> U[d].role, isActive |-> U[d].isActive,
                      lastLogin |-> U[d].lastLogin]]
       : d \in {E[i].developer : i \in match} \cap DOMAIN U}

statsPipeline(startDate, endDate, developerId, U, E) ==
  LET match == {i \in DOMAIN E :
                  /\ E[i].date >= startDate /\ E[i].date <= endDate
                  /\ (Has(developerId) => E[i].developer = Val(developerId))}
      of(d, t) == {i \in match : E[i].developer = d /\ E[i].taskType = t}
      byType(d) == {[taskType |-> t, totalHours |-> SumHours(of(d, t), E),
                     taskCount |-> Cardinality(of(d, t))]
                     : t \in {E[i].taskType : i \in {j \in match : E[j].developer = d}}}
  IN {[_id |-> d, workloadByType |-> byType(d),
       totalHours |-> SumHours({i \in match : E[i].developer = d}, E),
       developer |-> [_id |-> d, username |-> U[d].username, email |-> U[d].email,
                      role |-> U[d].role, isActive |-> U[d].isActive,
                      lastLogin |-> U[d].lastLogin]]
       : d \in {E[i].developer : i \in match} \cap DOMAIN U}

\* the non-admin requester who asks for another user's statistics
statsDeniedMutant(me, q, U) ==
  U[me].role # "admin" /\ Has(q.developerId) /\ Val(q.developerId) = me

statsDenied(me, q, U) ==
  U[me].role # "admin" /\ Has(q.developerId) /\ Val(q.developerId) # me

getWorkloadStats(me, q, U, E) ==
  IF ~Has(q.startDate) \/ ~Has(q.endDate)
    THEN Out(400, ErrorBody("Start and end dates are required"), U, E)
  ELSE IF statsDenied(me, q, U) THEN Out(403, ErrorBody("Access denied"), U, E)
  ELSE Out(200,
           [kind |-> "workloadStats",
            stats |-> statsPipeline(Val(q.startDate), Val(q.endDate),
                        IF Has(q.developerId) THEN q.developerId
                        ELSE IF U[me].role # "admin" THEN Some(me) ELSE None,
                        U, E)],
           U, E)

\* the groups of getProjectSummary's pipeline, before $sort
projectGroupsMutant(startDate, endDate, E) ==
  LET match == {i \in DOMAIN E : E[i].date >= startDate /\ E[i].date < endDate}
      of(p) == {i \in match : E[i].project = p}
      completed(p) == Cardinality({i \in of(p) : E[i].status = "completed"})
  IN {[project |-> p, totalHours |-> SumHours(of(p), E),
       taskCount |-> Cardinality(of(p)),
       completedTasks |-> completed(p),
       blockedTasks |-> Cardinality({i \in of(p) : E[i].status = "blocked"}),
       completionRate |-> [num |-> completed(p) * 100, den |-> Cardinality(of(p))]]
       : p \in {E[i].project : i \in match}}

projectGroups(startDate, endDate, E) ==
  LET match == {i \in DOMAIN E : E[i].date >= startDate /\ E[i].date <= endDate}
      of(p) == {i \in match : E[i].project = p}
      completed(p) == Cardinality({i \in of(p) : E[i].status = "completed"})
  IN {[project |-> p, totalHours |-> SumHours(of(p), E),
       taskCount |-> Cardinality(of(p)),
       completedTasks |-> completed(p),
       blockedTasks |-> Cardinality({i \in of(p) : E[i].status = "blocked"}),
       completionRate |-> [num |-> completed(p) * 100, den |-> Cardinality(of(p))]]
       : p \in {E[i].project : i \in match}}

\* { $sort: { totalHours: -1 } }
RECURSIVE SortByHoursDesc(_)
SortByHoursDesc(G) ==
  IF G = {} THEN <<>>
  ELSE LET first == CHOOSE g \in G : \A h \in G : h.totalHours <= g.totalHours
       IN <<first>> \o SortByHoursDesc(G \ {first})

getProjectSummary(q, U, E) ==
  IF ~Has(q.startDate) \/ ~Has(q.endDate)
    THEN Out(400, ErrorBody("Start and end dates are required"), U, E)
  ELSE Out(200,
           [kind |-> "projectSummary",
            summary |-> SortByHoursDesc(
                          projectGroups(Val(q.startDate), Val(q.endDate), E))],
           U, E)

\* the permission check of updateWorkload and deleteWorkload
mayModifyMutant(me, doc, U) == TRUE

mayModify(me, doc, U) == U[me].role = "admin" \/ doc.developer = me

\* Object.assign(workload, updates)
assign(doc, body) ==
  [developer |-> IF Has(body.developer) THEN Val(body.developer) ELSE doc.developer,
   project |-> IF Has(body.project) THEN Val(body.project) ELSE doc.project,
   taskName |-> IF Has(body.taskName) THEN Val(body.taskName) ELSE doc.taskName,
   taskType |-> IF Has(body.taskType) THEN Val(body.taskType) ELSE doc.taskType,
   hoursSpent |-> IF Has(body.hoursSpent) THEN Val(body.hoursSpent) ELSE doc.hoursSpent,
   date |-> IF Has(body.date) THEN Val(body.date) ELSE doc.date,
   status |-> IF Has(body.status) THEN Val(body.status) ELSE doc.status,
   priority |-> IF Has(body.priority) THEN Val(body.priority) ELSE doc.priority]

updateWorkload(me, id, body, U, E) ==
  IF id \notin DOMAIN E THEN Out(404, ErrorBody("Workload entry not found"), U, E)
  ELSE IF ~mayModify(me, E[id], U) THEN Out(403, ErrorBody("Access denied"), U, E)
  ELSE LET doc == assign(E[id], body)
       IN IF ~schemaValid(doc)
            THEN Out(500, ErrorBody("Error updating workload entry"), U, E)
          ELSE Out(200, [kind |-> "workload", workload |-> populate(id, doc, U)],
                   U, [E EXCEPT ![id] = doc])

deleteWorkload(me, id, U, E) ==
  IF id \notin DOMAIN E THEN Out(404, ErrorBody("Workload entry not found"), U, E)
  ELSE IF ~mayModify(me, E[id], U) THEN Out(403, ErrorBody("Access denied"), U, E)
  ELSE Out(200, MessageBody("Workload entry deleted successfully"), U, Remove(E, id))

\* ------------------------------------------------------------ the routes
\* Each route: its middleware in order, then its handler.
usersRoutes(op) ==
  CASE op = "getUsers"     -> <<"auth", "checkRole(['admin'])", "getUsers">>
    [] op = "getUserStats" -> <<"auth", "checkRole(['admin'])", "getUserStats">>
    [] op = "getUserById"  -> <<"auth", "checkUserAccess", "getUserById">>
    [] op = "updateUser"   -> <<"auth", "checkUserAccess", "userUpdateValidation",
                                "updateUser">>
    [] op = "deleteUser"   -> <<"auth", "checkRole(['admin'])", "deleteUser">>

workloadRoutes(op) ==
  CASE op = "createWorkload"    -> <<"auth", "workloadCreateValidation", "createWorkload">>
    [] op = "getWorkloads"      -> <<"auth", "getWorkloads">>
    [] op = "getWorkloadStats"  -> <<"auth", "dateRangeValidation", "getWorkloadStats">>
    [] op = "getProjectSummary" -> <<"auth", "dateRangeValidation", "getProjectSummary">>
    [] op = "updateWorkload"    -> <<"auth", "workloadUpdateValidation", "updateWorkload">>
    [] op = "deleteWorkload"    -> <<"auth", "deleteWorkload">>

authRoutes(op) ==
  CASE op = "register"       -> <<"registerValidation", "register">>
    [] op = "login"          -> <<"login">>
    [] op = "getProfile"     -> <<"auth", "getProfile">>
    [] op = "logout"         -> <<"auth", "logout">>
    [] op = "changePassword" -> <<"auth", "changePassword">>

UsersOps == {"getUsers", "getUserStats", "getUserById", "updateUser", "deleteUser"}
WorkloadOps == {"createWorkload", "getWorkloads", "getWorkloadStats",
                "getProjectSummary", "updateWorkload", "deleteWorkload"}
AuthOps == {"register", "login", "getProfile", "logout", "changePassword"}

\* app.use('/api/auth', ...), app.use('/api/workload', ...), app.use('/api/users', ...)
Route(op) ==
  IF op \in UsersOps THEN usersRoutes(op)
  ELSE IF op \in WorkloadOps THEN workloadRoutes(op)
  ELSE authRoutes(op)

\* one middleware of a chain: it replies, or calls next()
Middleware(name, r, me, U) ==
  CASE name = "auth" -> auth(r.token, U)
    [] name = "checkRole(['admin'])" -> checkRole({"admin"}, me, U)
    [] name = "checkUserAccess" -> checkUserAccess(me, r.userId, U)
    [] OTHER -> CallNext(me)

\* the violations a validation chain records on the request (validationResult(req))
Violations(name, r) ==
  CASE name = "userUpdateValidation" -> userUpdateValidation(r.body)
    [] name = "registerValidation" -> registerValidation(r.body)
    [] name = "workloadCreateValidation" -> workloadCreateValidation(r.body)
    [] name = "workloadUpdateValidation" -> workloadUpdateValidation(r.body)
    [] name = "dateRangeValidation" -> dateRangeValidation(r.query)
    [] OTHER -> {}

Handler(r, me, errors, U, E) ==
  CASE r.op = "getUsers" -> getUsers(r.query, U, E)
    [] r.op = "getUserStats" -> getUserStats(U, E)
    [] r.op = "getUserById" -> getUserById(r.userId, U, E)
    [] r.op = "updateUser" -> updateUser(me, r.userId, r.body, errors, U, E)
    [] r.op = "deleteUser" -> deleteUser(r.userId, U, E)
    [] r.op = "register" -> register(r.body, errors, U, E)
    [] r.op = "login" -> login(r.body, U, E)
    [] r.op = "getProfile" -> getProfile(me, U, E)
    [] r.op = "logout" -> logout(U, E)
    [] r.op = "changePassword" -> changePassword(me, r.body, U, E)
    [] r.op = "createWorkload" -> createWorkload(me, r.body, errors, U, E)
    [] r.op = "getWorkloads" -> getWorkloads(me, r.query, U, E)
    [] r.op = "getWorkloadStats" -> getWorkloadStats(me, r.query, U, E)
    [] r.op = "getProjectSummary" -> getProjectSummary(r.query, U, E)
    [] r.op = "updateWorkload" -> updateWorkload(me, r.id, r.body, U, E)
    [] r.op = "deleteWorkload" -> deleteWorkload(me, r.id, U, E)

\* Express runs the chain of r's route from position k; ran lists what has run.
\* what the client and the store see once the chain has stopped
Stopped(o, ran, U, E) ==
  [status |-> o.status, body |-> o.body, users |-> U, entries |-> E, ran |-> ran]

Handled(o, ran) == Stopped(o, ran, o.users, o.entries)

RECURSIVE Run(_, _, _, _, _, _, _)
Step(m, r, k, name, errors, ran, U, E) ==
  IF m.status # 0 THEN Stopped(m, ran, U, E)
  ELSE Run(r, k + 1, m.user, errors \cup Violations(name, r), ran, U, E)

Link(chain, r, k, name, me, errors, ran, U, E) ==
  IF k = Len(chain) THEN Handled(Handler(r, me, errors, U, E), ran)
  ELSE Step(Middleware(name, r, me, U), r, k, name, errors, ran, U, E)

Run(r, k, me, errors, ran, U, E) ==
  Link(Route(r.op), r, k, Route(r.op)[k], me, errors,
       Append(ran, Route(r.op)[k]), U, E)

Serve(r, U, E) == Run(r, 1, 0, {}, <<>>, U, E)

\* ------------------------------------------------------------- requests
NoReq == [op |-> "none"]
NoRes == [status |-> 0, ran |-> <<>>, body |-> NoBody]
NoQuery == [kind |-> "none"]

Request(op, token, userId, id, query, body) ==
  [op |-> op, token |-> token, userId |-> userId, id |-> id,
   query |-> query, body |-> body]

Store == [users |-> users, entries |-> entries]

\* No request is being answered.
Idle == req.op = "none"

\* --------------------------------------- what is at rest while requests run
\* no deleteUser request is in progress side by side with another
NoFlights == <<>>

NothingSettled == [fn |-> "none", ok |-> TRUE]

\* AuthProvider before it mounts: useState(null), useState(true), useState(null)
ProviderInit ==
  /\ currentUser = None
  /\ loading = TRUE
  /\ error = None
  /\ calls = {}
  /\ signedOut = FALSE
  /\ lastSettled = NothingSettled

\* a JavaScript number as a fraction; 0/0 is NaN
Number(n) == [num |-> n, den |-> 1]

\* ProjectSummary before it mounts: its three useState calls
SummaryPageInit ==
  [mounted |-> FALSE, loadedAt |-> 0, pending |-> FALSE, rounds |-> 0,
   loading |-> TRUE, error |-> None,
   summaryData |-> [projects |-> <<>>, totalHours |-> Number(0),
                    totalTasks |-> Number(0), averageCompletion |-> Number(0)]]

\* Dashboard before it mounts: its three useState calls
DashboardInit ==
  [mounted |-> FALSE, loadedAt |-> 0, pending |-> FALSE, rounds |-> 0,
   loading |-> TRUE, error |-> None,
   dashboardData |-> [workloadStats |-> {}, projectSummary |-> <<>>,
                      tasksByStatus |-> <<>>, tasksByPriority |-> <<>>]]

PagesInit ==
  /\ summaryPage = SummaryPageInit
  /\ dashboard = DashboardInit
  /\ minutes = 0

\* no browser is open: the backend is driven by its requests alone
NoClient ==
  /\ storedToken = None
  /\ authHeader = None
  /\ ProviderInit
  /\ PagesInit

\* The request r is answered: its route runs to the end.
Answered(r, o, U, E) ==
  /\ req' = r
  /\ res' = [status |-> o.status, ran |-> o.ran, body |-> o.body]
  /\ users' = o.users
  /\ entries' = o.entries
  /\ nextUserId' = IF nextUserId \in DOMAIN o.users
                     THEN nextUserId + 1 ELSE nextUserId
  /\ nextEntryId' = IF nextEntryId \in DOMAIN o.entries
                      THEN nextEntryId + 1 ELSE nextEntryId
  /\ pre' = [users |-> U, entries |-> E]
  /\ createdBy' = [i \in DOMAIN createdBy \cup (DOMAIN o.entries \ DOMAIN E) |->
                     IF i \in DOMAIN createdBy THEN createdBy[i] ELSE r.token.uid]

Answer(r, o, U, E) ==
  /\ Answered(r, o, U, E)
  /\ UNCHANGED <<loggedOut, flights, clientVars>>

Handle(r) == Answer(r, Serve(r, users, entries), users, entries)

\* The response has been sent; the request context is gone.
Finish ==
  /\ ~Idle
  /\ req' = NoReq
  /\ res' = NoRes
  /\ pre' = Store
  /\ UNCHANGED <<users, entries, nextUserId, nextEntryId, createdBy, loggedOut>>
  /\ UNCHANGED <<flights, clientVars>>

\* --------------------------------------------------------------- inputs
MaxBodyFields == 2

UserIds == 1..MaxUsers
EntryIds == 1..MaxEntries

ValidTokens == {[uid |-> i, kind |-> "valid"] : i \in UserIds}
BadTokens == {NoToken, [uid |-> 1, kind |-> "expired"], [uid |-> 1, kind |-> "forged"]}

NumPresent(fields) == Cardinality({k \in DOMAIN fields : Has(fields[k])})

UserUpdateBodies ==
  {b \in [username : Opt({"ab", "admin"}),
          email : Opt({"user@example.com"}),
          role : Opt({"admin", "user", "root"}),
          isActive : Opt({"true", "false", "'yes'"})] :
     NumPresent(<<b.username, b.email, b.role, b.isActive>>) <= MaxBodyFields}
NoFields == [username |-> None, email |-> None, role |-> None, isActive |-> None]

RegisterBodies ==
  [username : {Some("user"), Some("admin")},
   email : {Some("user@example.com"), Some("nomail")},
   password : {Some("user123")},
   role : Opt({"admin", "manager"})]

LoginBodies ==
  [email : Opt({"admin@example.com"}),
   password : Opt({"admin123", "wrong"})]

PasswordBodies ==
  [currentPassword : {"admin123", "wrong"}, newPassword : {"admin456"}]

UserListQueries ==
  [page : Opt({2}), limit : Opt({1}), search : Opt({"ad"}), role : Opt({"user"})]

NoUserQuery == [page |-> None, limit |-> None, search |-> None, role |-> None]

\* ------------------------------------------------- actions: /api/users
GetUsers(Toks, Queries) ==
  /\ Idle
  /\ \E t \in Toks, q \in Queries :
       Handle(Request("getUsers", t, 0, 0, q, NoBody))

GetUserStats(Toks) ==
  /\ Idle
  /\ \E t \in Toks : Handle(Request("getUserStats", t, 0, 0, NoQuery, NoBody))

GetUserById(Toks, Ids) ==
  /\ Idle
  /\ \E t \in Toks, id \in Ids :
       Handle(Request("getUserById", t, id, 0, NoQuery, NoBody))

UpdateUser(Toks, Ids, Bodies) ==
  /\ Idle
  /\ \E t \in Toks, id \in Ids, b \in Bodies :
       Handle(Request("updateUser", t, id, 0, NoQuery, b))

DeleteUser(Toks, Ids) ==
  /\ Idle
  /\ \E t \in Toks, id \in Ids :
       Handle(Request("deleteUser", t, id, 0, NoQuery, NoBody))

\* -------------------------------------------------- actions: /api/auth
Register(Bodies) ==
  /\ Idle
  /\ nextUserId <= MaxUsers
  /\ \E b \in Bodies : Handle(Request("register", NoToken, 0, 0, NoQuery, b))

Login(Bodies) ==
  /\ Idle
  /\ \E b \in Bodies : Handle(Request("login", NoToken, 0, 0, NoQuery, b))

GetProfile(Toks) ==
  /\ Idle
  /\ \E t \in Toks : Handle(Request("getProfile", t, 0, 0, NoQuery, NoBody))

Logout(Toks) ==
  /\ Idle
  /\ \E t \in Toks : Handle(Request("logout", t, 0, 0, NoQuery, NoBody))

ChangePassword(Toks, Bodies) ==
  /\ Idle
  /\ \E t \in Toks, b \in Bodies :
       Handle(Request("changePassword", t, 0, 0, NoQuery, b))

\* ------------------------------------------------ user management: Spec
\* The store at the start: the administrator account alone.
InitUsers ==
  1 :> [username |-> "admin", email |-> "admin@example.com",
        password |-> Hash("admin123"), role |-> "admin",
        isActive |-> TRUE, lastLogin |-> "null"]

NoEntries == [i \in {} |-> 0]

Init ==
  /\ users = InitUsers
  /\ entries = NoEntries
  /\ nextUserId = 2
  /\ nextEntryId = 1
  /\ req = NoReq
  /\ res = NoRes
  /\ pre = [users |-> InitUsers, entries |-> NoEntries]
  /\ createdBy = NoEntries
  /\ loggedOut = {}
  /\ flights = NoFlights
  /\ NoClient

Next ==
  \/ GetUsers(ValidTokens, UserListQueries)
  \/ GetUsers(BadTokens, {NoUserQuery})
  \/ GetUserStats(ValidTokens \cup BadTokens)
  \/ GetUserById(ValidTokens \cup BadTokens, UserIds)
  \/ UpdateUser(ValidTokens, UserIds, UserUpdateBodies)
  \/ UpdateUser(BadTokens, UserIds, {NoFields})
  \/ DeleteUser(ValidTokens \cup BadTokens, UserIds)
  \/ Register(RegisterBodies)
  \/ Login(LoginBodies)
  \/ GetProfile(ValidTokens \cup BadTokens)
  \/ Logout(ValidTokens \cup BadTokens)
  \/ ChangePassword(ValidTokens \cup BadTokens, PasswordBodies)
  \/ Finish

Spec == Init /\ [][Next]_vars

\* ---------------------------------------------- actions: /api/workload
CreateWorkload(Toks, Bodies) ==
  /\ Idle
  /\ nextEntryId <= MaxEntries
  /\ \E t \in Toks, b \in Bodies :
       Handle(Request("createWorkload", t, 0, 0, NoQuery, b))

GetWorkloads(Toks, Queries) ==
  /\ Idle
  /\ \E t \in Toks, q \in Queries :
       Handle(Request("getWorkloads", t, 0, 0, q, NoBody))

GetWorkloadStats(Toks, Queries) ==
  /\ Idle
  /\ \E t \in Toks, q \in Queries :
       Handle(Request("getWorkloadStats", t, 0, 0, q, NoBody))

GetProjectSummary(Toks, Queries) ==
  /\ Idle
  /\ \E t \in Toks, q \in Queries :
       Handle(Request("getProjectSummary", t, 0, 0, q, NoBody))

UpdateWorkload(Toks, Ids, Bodies) ==
  /\ Idle
  /\ \E t \in Toks, id \in Ids, b \in Bodies :
       Handle(Request("updateWorkload", t, 0, id, NoQuery, b))

DeleteWorkload(Toks, Ids) ==
  /\ Idle
  /\ \E t \in Toks, id \in Ids :
       Handle(Request("deleteWorkload", t, 0, id, NoQuery, NoBody))

\* ------------------------------------------------ the whole API: SpecApi
\* Every route of the three routers, over both collections.
WorkloadBody ==
  [developer |-> None, project |-> Some("P"), taskName |-> Some("T"),
   taskType |-> Some("development"), hoursSpent |-> Some(4), date |-> Some(1),
   status |-> Some("planned"), priority |-> Some("medium")]

WorkloadCreateBodies ==
  {WorkloadBody,
   [WorkloadBody EXCEPT !.hoursSpent = Some(-1)],
   [WorkloadBody EXCEPT !.developer = Some(1)],
   [WorkloadBody EXCEPT !.status = None]}

NoWorkloadFields ==
  [developer |-> None, project |-> None, taskName |-> None, taskType |-> None,
   hoursSpent |-> None, date |-> None, status |-> None, priority |-> None]

WorkloadUpdateBodies ==
  {NoWorkloadFields,
   [NoWorkloadFields EXCEPT !.hoursSpent = Some(-1)],
   [NoWorkloadFields EXCEPT !.hoursSpent = Some(6), !.status = Some("completed")],
   [NoWorkloadFields EXCEPT !.developer = Some(1)],
   [NoWorkloadFields EXCEPT !.taskType = Some("coding")],
   [NoWorkloadFields EXCEPT !.status = Some("done"), !.priority = Some("urgent")]}

WorkloadListQueries ==
  [startDate : {None}, endDate : {None}, project : Opt({"P"}),
   status : Opt({"completed"}), taskType : {None}, page : {None}, limit : Opt({1})]

StatsQueries ==
  [startDate : {Some(1)}, endDate : {Some(2)}, developerId : Opt(UserIds)]
  \cup {[startDate |-> None, endDate |-> Some(2), developerId |-> None],
        [startDate |-> Some(1), endDate |-> None, developerId |-> Some(1)]}

SummaryQueries == [startDate : Opt({1}), endDate : {Some(2)}]

NoWorkloadQuery ==
  [startDate |-> None, endDate |-> None, project |-> None, status |-> None,
   taskType |-> None, page |-> None, limit |-> None]
NoDates == [startDate |-> None, endDate |-> None]

AnyToken == ValidTokens \cup BadTokens

NextApi ==
  \/ GetUsers(AnyToken, {NoUserQuery})
  \/ GetUserStats(AnyToken)
  \/ GetUserById(AnyToken, UserIds)
  \/ UpdateUser(ValidTokens, UserIds,
                {[NoFields EXCEPT !.isActive = Some("false")],
                 [NoFields EXCEPT !.role = Some("admin")]})
  \/ UpdateUser(BadTokens, UserIds, {NoFields})
  \/ DeleteUser(AnyToken, UserIds)
  \/ Register({[username |-> Some("user"), email |-> Some("user@example.com"),
                password |-> Some("user123"), role |-> None]})
  \/ Login({[email |-> Some("admin@example.com"), password |-> Some("admin123")],
            [email |-> Some("admin@example.com"), password |-> Some("wrong")]})
  \/ GetProfile(AnyToken)
  \/ Logout(AnyToken)
  \/ ChangePassword(AnyToken,
                    {[currentPassword |-> "admin123", newPassword |-> "admin456"]})
  \/ CreateWorkload(ValidTokens, WorkloadCreateBodies)
  \/ CreateWorkload(BadTokens, {WorkloadBody})
  \/ GetWorkloads(ValidTokens, WorkloadListQueries)
  \/ GetWorkloads(BadTokens, {NoWorkloadQuery})
  \/ GetWorkloadStats(ValidTokens, StatsQueries)
  \/ GetWorkloadStats(BadTokens,
                      {[startDate |-> Some(1), endDate |-> None, developerId |-> None]})
  \/ GetProjectSummary(ValidTokens, SummaryQueries)
  \/ GetProjectSummary(BadTokens, {NoDates})
  \/ UpdateWorkload(ValidTokens, EntryIds, WorkloadUpdateBodies)
  \/ UpdateWorkload(BadTokens, EntryIds, {NoWorkloadFields})
  \/ DeleteWorkload(AnyToken, EntryIds)
  \/ Finish

SpecApi == Init /\ [][NextApi]_vars

\* ------------------------------------------- the seeded database: SpecQuery
\* The read-only routes over the database that the seed script leaves behind.
MaxStored == 3

\* the four accounts of the seed script, in creation order
SeedUsers ==
  InitUsers
  @@ (2 :> [username |-> "developer1", email |-> "dev1@example.com",
            password |-> Hash("dev123"), role |-> "user",
            isActive |-> TRUE, lastLogin |-> "null"])
  @@ (3 :> [username |-> "developer2", email |-> "dev2@example.com",
            password |-> Hash("dev123"), role |-> "user",
            isActive |-> TRUE, lastLogin |-> "null"])
  @@ (4 :> [username |-> "manager1", email |-> "manager1@example.com",
            password |-> Hash("manager123"), role |-> "manager",
            isActive |-> TRUE, lastLogin |-> "null"])

\* entries as generateRandomWorkload draws them; the last one belongs to an
\* account that has been deleted since
SeedWorkloads ==
  <<[developer |-> 2, project |-> "Frontend App", taskName |-> "Task 1",
     taskType |-> "development", hoursSpent |-> 4, date |-> 1,
     status |-> "completed", priority |-> "high"],
    [developer |-> 2, project |-> "Frontend App", taskName |-> "Task 2",
     taskType |-> "review", hoursSpent |-> 2, date |-> 2,
     status |-> "blocked", priority |-> "medium"],
    [developer |-> 3, project |-> "Backend API", taskName |-> "Task 3",
     taskType |-> "development", hoursSpent |-> 6, date |-> 2,
     status |-> "completed", priority |-> "low"],
    [developer |-> 2, project |-> "Backend API", taskName |-> "Task 4",
     taskType |-> "bug-fix", hoursSpent |-> 8, date |-> 3,
     status |-> "in-progress", priority |-> "high"],
    [developer |-> 5, project |-> "Mobile App", taskName |-> "Task 5",
     taskType |-> "development", hoursSpent |-> 5, date |-> 2,
     status |-> "blocked", priority |-> "low"]>>

\* a collection of fifteen entries: more than one page of the default size
ManyWorkloads == [i \in 1..15 |-> SeedWorkloads[(i % Len(SeedWorkloads)) + 1]]

SeedStores ==
  UNION {[1..k -> {SeedWorkloads[j] : j \in 1..Len(SeedWorkloads)}] : k \in 0..MaxStored}
  \cup {ManyWorkloads}

InitSeeded ==
  /\ users = SeedUsers
  /\ entries \in SeedStores
  /\ nextUserId = Cardinality(DOMAIN SeedUsers) + 1
  /\ nextEntryId = Cardinality(DOMAIN entries) + 1
  /\ req = NoReq
  /\ res = NoRes
  /\ pre = [users |-> SeedUsers, entries |-> entries]
  /\ createdBy = [i \in DOMAIN entries |-> entries[i].developer]
  /\ loggedOut = {}
  /\ flights = NoFlights
  /\ NoClient

\* the administrator and developer1, signed in
SeedTokens == {[uid |-> i, kind |-> "valid"] : i \in {1, 2}}

RangeQueries == [startDate : {Some(1), Some(2)}, endDate : {Some(2), Some(3)}]

StatsRangeQueries ==
  [startDate : {Some(1), Some(2)}, endDate : {Some(2), Some(3)},
   developerId : Opt({2, 3})]

WorkloadPageQueries ==
  [startDate : {None}, endDate : {None}, project : Opt({"Backend API"}),
   status : {None}, taskType : {None}, page : Opt({0, 1, 2, 3}), limit : Opt({1, 2})]

UserPageQueries ==
  [page : Opt({1, 2, 3}), limit : Opt({1, 2}), search : {None}, role : Opt({"user"})]

NextQuery ==
  \/ GetProjectSummary(SeedTokens, RangeQueries)
  \/ GetWorkloadStats(SeedTokens, StatsRangeQueries)
  \/ GetWorkloads(SeedTokens, WorkloadPageQueries)
  \/ GetUsers(SeedTokens, UserPageQueries)
  \/ Finish

SpecQuery == InitSeeded /\ [][NextQuery]_vars

\* ------------------------------------------------ sessions: SpecSession
\* The routes that a session goes through, with the history of the logouts.
Tracked(r, o) ==
  /\ Answered(r, o, users, entries)
  /\ loggedOut' = IF r.op = "logout" /\ o.status = 200
                    THEN loggedOut \cup {r.token.uid} ELSE loggedOut
  /\ UNCHANGED <<flights, clientVars>>

Track(r) == Tracked(r, Serve(r, users, entries))

SessionRegister(Bodies) ==
  /\ Idle
  /\ nextUserId <= MaxUsers
  /\ \E b \in Bodies : Track(Request("register", NoToken, 0, 0, NoQuery, b))

SessionLogin(Bodies) ==
  /\ Idle
  /\ \E b \in Bodies : Track(Request("login", NoToken, 0, 0, NoQuery, b))

SessionLogout(Toks) ==
  /\ Idle
  /\ \E t \in Toks : Track(Request("logout", t, 0, 0, NoQuery, NoBody))

SessionGetProfile(Toks) ==
  /\ Idle
  /\ \E t \in Toks : Track(Request("getProfile", t, 0, 0, NoQuery, NoBody))

SessionGetUserById(Toks, Ids) ==
  /\ Idle
  /\ \E t \in Toks, id \in Ids :
       Track(Request("getUserById", t, id, 0, NoQuery, NoBody))

SessionUpdateUser(Toks, Ids, Bodies) ==
  /\ Idle
  /\ \E t \in Toks, id \in Ids, b \in Bodies :
       Track(Request("updateUser", t, id, 0, NoQuery, b))

SessionDeleteUser(Toks, Ids) ==
  /\ Idle
  /\ \E t \in Toks, id \in Ids :
       Track(Request("deleteUser", t, id, 0, NoQuery, NoBody))

NextSession ==
  \/ SessionRegister({[username |-> Some("user"), email |-> Some("user@example.com"),
                       password |-> Some("user123"), role |-> None]})
  \/ SessionLogin({[email |-> Some("admin@example.com"),
                    password |-> Some("admin123")]})
  \/ SessionLogout(AnyToken)
  \/ SessionGetProfile(AnyToken)
  \/ SessionGetUserById(AnyToken, UserIds)
  \/ SessionUpdateUser(ValidTokens, UserIds,
                       {[NoFields EXCEPT !.isActive = Some("false")],
                        [NoFields EXCEPT !.isActive = Some("true")]})
  \/ SessionDeleteUser(ValidTokens, UserIds)
  \/ Finish

SpecSession == Init /\ [][NextSession]_vars

\* ------------------------------------- concurrent deleteUser: SpecRace
\* Two DELETE /api/users/:userId requests in progress at once.  Each stops at
\* its await points (auth's findOne, findById, countDocuments, remove), where
\* the other one may run.
Slots == {1, 2}

\* two administrators and one standard member
RaceUsers ==
  InitUsers
  @@ (2 :> [username |-> "admin2", email |-> "admin2@example.com",
            password |-> Hash("admin123"), role |-> "admin",
            isActive |-> TRUE, lastLogin |-> "null"])
  @@ (3 :> [username |-> "developer1", email |-> "dev1@example.com",
            password |-> Hash("dev123"), role |-> "user",
            isActive |-> TRUE, lastLogin |-> "null"])

NotStarted ==
  [pc |-> "none", tok |-> NoToken, target |-> 0, role |-> "none",
   adminCount |-> 0, status |-> 0]

InitRace ==
  /\ users = RaceUsers
  /\ entries = NoEntries
  /\ nextUserId = Cardinality(DOMAIN RaceUsers) + 1
  /\ nextEntryId = 1
  /\ req = NoReq
  /\ res = NoRes
  /\ pre = [users |-> RaceUsers, entries |-> NoEntries]
  /\ createdBy = NoEntries
  /\ loggedOut = {}
  /\ flights = [s \in Slots |-> NotStarted]
  /\ NoClient

\* a step of flight s that touches no document
Moves(s, f) ==
  /\ flights' = [flights EXCEPT ![s] = f]
  /\ UNCHANGED <<serverVars, clientVars>>

Replied(f, status) == [f EXCEPT !.pc = "done", !.status = status]

\* the request arrives and auth starts User.findOne
DeleteArrives(s, Toks, Ids) ==
  /\ flights[s].pc = "none"
  /\ \E t \in Toks, id \in Ids :
       Moves(s, [flights[s] EXCEPT !.pc = "auth", !.tok = t, !.target = id])

\* auth's findOne has resolved; checkRole(['admin']) runs in the same turn, and
\* deleteUser starts User.findById
guards(tok, U) ==
  IF auth(tok, U).status # 0 THEN auth(tok, U).status
  ELSE checkRole({"admin"}, auth(tok, U).user, U).status

DeleteGuards(s) ==
  /\ flights[s].pc = "auth"
  /\ Moves(s, IF guards(flights[s].tok, users) # 0
                THEN Replied(flights[s], guards(flights[s].tok, users))
              ELSE [flights[s] EXCEPT !.pc = "findById"])

\* findById has resolved: 404, or countDocuments starts for an admin target
DeleteFound(s) ==
  /\ flights[s].pc = "findById"
  /\ Moves(s, IF flights[s].target \notin DOMAIN users
                THEN Replied(flights[s], 404)
              ELSE [flights[s] EXCEPT
                      !.role = users[flights[s].target].role,
                      !.pc = IF users[flights[s].target].role = "admin"
                               THEN "countDocuments" ELSE "remove"])

\* if (adminCount <= 1): the target is refused as the last admin
refusesLastAdminMutant(adminCount) == adminCount < 1

refusesLastAdmin(adminCount) == adminCount <= 1

\* countDocuments({ role: 'admin' }) has resolved
DeleteCounted(s) ==
  /\ flights[s].pc = "countDocuments"
  /\ Moves(s, IF refusesLastAdmin(Cardinality(AdminIds(users)))
                THEN Replied([flights[s] EXCEPT
                                !.adminCount = Cardinality(AdminIds(users))], 400)
              ELSE [flights[s] EXCEPT
                      !.adminCount = Cardinality(AdminIds(users)),
                      !.pc = "remove"])

\* user.remove() has resolved and the 200 is sent
DeleteRemoved(s) ==
  /\ flights[s].pc = "remove"
  /\ users' = Remove(users, flights[s].target)
  /\ flights' = [flights EXCEPT ![s] = Replied(flights[s], 200)]
  /\ UNCHANGED <<entries, nextUserId, nextEntryId, req, res, pre, createdBy,
                 loggedOut, clientVars>>

NextRace ==
  \E s \in Slots :
    \/ DeleteArrives(s, {[uid |-> i, kind |-> "valid"] : i \in DOMAIN RaceUsers},
                     DOMAIN RaceUsers)
    \/ DeleteGuards(s)
    \/ DeleteFound(s)
    \/ DeleteCounted(s)
    \/ DeleteRemoved(s)

SpecRace == InitRace /\ [][NextRace]_vars

\* ------------------------------------------ AuthProvider: SpecProvider
\* The AuthProvider context of the frontend.  Every function of the context is
\* split at its await: the call starts (what runs before the await), and later
\* settles with the server's answer or with a failure (what runs after it).
\* The server is the environment: any answer may come.
StoredTokens == {"fresh", "expired", "malformed"}
IssuedToken == "issued"
Accounts == {[_id |-> 1, role |-> "admin"], [_id |-> 2, role |-> "user"]}

\* jwtDecode(token) throws on a token it cannot decode
jwtDecodeThrows(t) == t = "malformed"
\* decoded.exp * 1000 < Date.now()
isExpired(t) == t = "expired"

InitProvider ==
  /\ users = InitUsers
  /\ entries = NoEntries
  /\ nextUserId = 2
  /\ nextEntryId = 1
  /\ req = NoReq
  /\ res = NoRes
  /\ pre = [users |-> InitUsers, entries |-> NoEntries]
  /\ createdBy = NoEntries
  /\ loggedOut = {}
  /\ flights = NoFlights
  /\ storedToken \in Opt(StoredTokens)
  /\ authHeader = None
  /\ ProviderInit
  /\ PagesInit

Backstage == UNCHANGED <<serverVars, flights, pageVars>>

InFlight(fn) == fn \in calls
Starts(fn) == calls' = calls \cup {fn}
Settles(fn, ok) ==
  /\ calls' = calls \ {fn}
  /\ lastSettled' = [fn |-> fn, ok |-> ok]

\* useEffect(() => { ... }, []): the effect of the first render
Mount ==
  /\ loading = TRUE
  /\ IF ~Has(storedToken)
       THEN UNCHANGED <<storedToken, authHeader, currentUser, calls>>
     ELSE IF jwtDecodeThrows(Val(storedToken)) \/ isExpired(Val(storedToken))
       THEN /\ storedToken' = None
            /\ currentUser' = None
            /\ UNCHANGED <<authHeader, calls>>
     ELSE /\ authHeader' = storedToken
          /\ Starts("fetchUserProfile")
          /\ UNCHANGED <<storedToken, currentUser>>
  /\ loading' = FALSE
  /\ UNCHANGED <<error, signedOut, lastSettled>>
  /\ Backstage

\* fetchUserProfile after its await
ProfileSettles ==
  /\ InFlight("fetchUserProfile")
  /\ \/ /\ \E u \in Accounts : currentUser' = Some(u)
        /\ Settles("fetchUserProfile", TRUE)
        /\ UNCHANGED storedToken
     \/ /\ storedToken' = None
        /\ currentUser' = None
        /\ Settles("fetchUserProfile", FALSE)
  /\ UNCHANGED <<authHeader, loading, error, signedOut>>
  /\ Backstage

\* login and register up to their await: setError(null) and the POST
SignInStarts(fn) ==
  /\ loading = FALSE
  /\ ~InFlight(fn)
  /\ error' = None
  /\ Starts(fn)
  /\ signedOut' = FALSE
  /\ UNCHANGED <<storedToken, authHeader, currentUser, loading, lastSettled>>
  /\ Backstage

\* login and register after their await
SignInSettles(fn, message) ==
  /\ InFlight(fn)
  /\ \/ /\ storedToken' = Some(IssuedToken)
        /\ authHeader' = Some(IssuedToken)
        /\ \E u \in Accounts : currentUser' = Some(u)
        /\ Settles(fn, TRUE)
        /\ UNCHANGED error
     \/ /\ error' = Some(message)
        /\ Settles(fn, FALSE)
        /\ UNCHANGED <<storedToken, authHeader, currentUser>>
  /\ UNCHANGED <<loading, signedOut>>
  /\ Backstage

LoginStarts == SignInStarts("login")
LoginSettles == SignInSettles("login", "Login failed")
RegisterStarts == SignInStarts("register")
RegisterSettles == SignInSettles("register", "Registration failed")

\* logout up to its await: the POST
LogoutStarts ==
  /\ loading = FALSE
  /\ ~InFlight("logout")
  /\ Starts("logout")
  /\ UNCHANGED <<storedToken, authHeader, currentUser, loading, error, signedOut,
                 lastSettled>>
  /\ Backstage

clearedMutant(ok) ==
  IF ok THEN [token |-> None, header |-> None, user |-> None]
  ELSE [token |-> storedToken, header |-> authHeader, user |-> currentUser]

\* what logout's finally block leaves
cleared(ok) == [token |-> None, header |-> None, user |-> None]

\* logout after its await: catch logs, finally clears
LogoutSettles ==
  /\ InFlight("logout")
  /\ \E ok \in BOOLEAN :
       /\ storedToken' = cleared(ok).token
       /\ authHeader' = cleared(ok).header
       /\ currentUser' = cleared(ok).user
       /\ Settles("logout", ok)
  /\ signedOut' = TRUE
  /\ UNCHANGED <<loading, error>>
  /\ Backstage

\* updateProfile up to its await; user._id throws when user is null, which the
\* catch block reports
UpdateProfileStarts ==
  /\ loading = FALSE
  /\ ~InFlight("updateProfile")
  /\ IF Has(currentUser)
       THEN /\ error' = None
            /\ Starts("updateProfile")
            /\ UNCHANGED lastSettled
     ELSE /\ error' = Some("Profile update failed")
          /\ lastSettled' = [fn |-> "updateProfile", ok |-> FALSE]
          /\ UNCHANGED calls
  /\ UNCHANGED <<storedToken, authHeader, currentUser, loading, signedOut>>
  /\ Backstage

\* updateProfile after its await
UpdateProfileSettles ==
  /\ InFlight("updateProfile")
  /\ \/ /\ \E u \in Accounts : currentUser' = Some(u)
        /\ Settles("updateProfile", TRUE)
        /\ UNCHANGED error
     \/ /\ error' = Some("Profile update failed")
        /\ Settles("updateProfile", FALSE)
        /\ UNCHANGED currentUser
  /\ UNCHANGED <<storedToken, authHeader, loading, signedOut>>
  /\ Backstage

\* changePassword up to its await
ChangePasswordStarts ==
  /\ loading = FALSE
  /\ ~InFlight("changePassword")
  /\ error' = None
  /\ Starts("changePassword")
  /\ UNCHANGED <<storedToken, authHeader, currentUser, loading, signedOut,
                 lastSettled>>
  /\ Backstage

\* changePassword after its await
ChangePasswordSettles ==
  /\ InFlight("changePassword")
  /\ \/ Settles("changePassword", TRUE) /\ UNCHANGED error
     \/ Settles("changePassword", FALSE) /\ error' = Some("Password change failed")
  /\ UNCHANGED <<storedToken, authHeader, currentUser, loading, signedOut>>
  /\ Backstage

\* what ProtectedRoute renders for the context it reads
ProtectedRoute(u, isLoading, roles) ==
  IF isLoading THEN "Loading..."
  ELSE IF ~Has(u) THEN "/login"
  ELSE IF roles # {} /\ Val(u).role \notin roles THEN "/dashboard"
  ELSE "children"

NextProvider ==
  \/ Mount
  \/ ProfileSettles
  \/ LoginStarts
  \/ LoginSettles
  \/ RegisterStarts
  \/ RegisterSettles
  \/ LogoutStarts
  \/ LogoutSettles
  \/ UpdateProfileStarts
  \/ UpdateProfileSettles
  \/ ChangePasswordStarts
  \/ ChangePasswordSettles

SpecProvider == InitProvider /\ [][NextProvider]_vars

\* ------------------------------------------------- the pages: SpecPages
\* Dashboard and ProjectSummary.  Each fetch is split at its await; the answers
\* are the ones the backend gives for the seeded collection, or a failure.
MaxMinutes == 6
\* the period of the refresh the test suite waits for: 5 * 60 * 1000 ms
PollMinutes == 5

\* the window of the query covers the whole seeded collection
PageStores == {NoEntries, [i \in 1..2 |-> SeedWorkloads[i]], SeedWorkloads, ManyWorkloads}
SummaryAnswers == {SortByHoursDesc(projectGroups(1, 3, E)) : E \in PageStores}
StatsAnswers == {statsPipeline(1, 3, None, SeedUsers, E) : E \in PageStores}

Plus(a, b) == [num |-> a.num * b.den + b.num * a.den, den |-> a.den * b.den]
DividedBy(a, n) == [num |-> a.num, den |-> a.den * n]
isNaN(a) == a.den = 0

\* projects.reduce((sum, p) => sum + p[field], 0) over whole numbers
RECURSIVE reduceWhole(_, _)
reduceWhole(projects, field) ==
  IF projects = <<>> THEN 0
  ELSE projects[1][field] + reduceWhole(Tail(projects), field)

\* projects.reduce((sum, p) => sum + p.completionRate, 0)
RECURSIVE reduceRates(_)
reduceRates(projects) ==
  IF projects = <<>> THEN Number(0)
  ELSE Plus(projects[1].completionRate, reduceRates(Tail(projects)))

averageCompletion(projects) == DividedBy(reduceRates(projects), Len(projects))

\* what fetchProjectSummary makes of the response data
summarise(projects) ==
  [projects |-> projects,
   totalHours |-> Number(reduceWhole(projects, "totalHours")),
   totalTasks |-> Number(reduceWhole(projects, "taskCount")),
   averageCompletion |-> averageCompletion(projects)]

\* x.toFixed(1): the number in tenths, half rounded up, or "NaN"
toFixed1(x) ==
  IF isNaN(x) THEN [NaN |-> TRUE, tenths |-> 0]
  ELSE [NaN |-> FALSE, tenths |-> (2 * 10 * x.num + x.den) \div (2 * x.den)]

\* {x}: the number as React prints it
toText(x) ==
  IF isNaN(x) THEN [NaN |-> TRUE, tenths |-> 0]
  ELSE [NaN |-> FALSE, tenths |-> 10 * (x.num \div x.den)]

\* the three summary cards of ProjectSummary
SummaryCards(data) ==
  [totalHours |-> toFixed1(data.totalHours),
   totalTasks |-> toText(data.totalTasks),
   averageCompletion |-> toFixed1(data.averageCompletion)]

\* the task counts of all workloadByType records that carry the key
countBy(data, field, key) ==
  LET rows == UNION {{[dev |-> d._id, row |-> w] : w \in d.workloadByType} : d \in data}
      hit == {r \in rows : IF field \in DOMAIN r.row THEN r.row[field] = key
                           ELSE key = "undefined"}
      RECURSIVE total(_)
      total(R) == IF R = {} THEN 0
                  ELSE LET r == CHOOSE x \in R : TRUE
                       IN r.row.taskCount + total(R \ {r})
  IN total(hit)

processTaskStatusData(data) ==
  [k \in {"in-progress", "completed", "blocked", "planned", "undefined"}
     |-> countBy(data, "status", k)]

processTaskPriorityData(data) ==
  [k \in {"high", "medium", "low", "undefined"} |-> countBy(data, "priority", k)]

InitPages ==
  /\ users = SeedUsers
  /\ entries = SeedWorkloads
  /\ nextUserId = Cardinality(DOMAIN SeedUsers) + 1
  /\ nextEntryId = Len(SeedWorkloads) + 1
  /\ req = NoReq
  /\ res = NoRes
  /\ pre = [users |-> SeedUsers, entries |-> SeedWorkloads]
  /\ createdBy = [i \in DOMAIN SeedWorkloads |-> SeedWorkloads[i].developer]
  /\ loggedOut = {}
  /\ flights = NoFlights
  /\ NoClient

Offstage == UNCHANGED <<serverVars, flights, providerVars>>

\* a page's first render and the effect it runs: the fetch up to its await
mounts(page) ==
  [page EXCEPT !.mounted = TRUE, !.loading = TRUE, !.pending = TRUE, !.rounds = @ + 1]

\* the finally block of a fetch
loaded(page) ==
  [page EXCEPT !.loading = FALSE, !.pending = FALSE, !.loadedAt = minutes]

SummaryMounts ==
  /\ ~summaryPage.mounted
  /\ summaryPage' = mounts(summaryPage)
  /\ UNCHANGED <<dashboard, minutes>>
  /\ Offstage

\* fetchProjectSummary after its await
SummarySettles ==
  /\ summaryPage.pending
  /\ \/ \E projects \in SummaryAnswers :
          summaryPage' = loaded([summaryPage EXCEPT !.summaryData = summarise(projects)])
     \/ summaryPage' = loaded([summaryPage EXCEPT
                                 !.error = Some("Failed to load project summary")])
  /\ UNCHANGED <<dashboard, minutes>>
  /\ Offstage

DashboardMounts ==
  /\ ~dashboard.mounted
  /\ dashboard' = mounts(dashboard)
  /\ UNCHANGED <<summaryPage, minutes>>
  /\ Offstage

\* fetchDashboardData after its await of both requests
DashboardSettles ==
  /\ dashboard.pending
  /\ \/ \E stats \in StatsAnswers, summary \in SummaryAnswers :
          dashboard' = loaded([dashboard EXCEPT
                                 !.dashboardData =
                                    [workloadStats |-> stats,
                                     projectSummary |-> summary,
                                     tasksByStatus |-> processTaskStatusData(stats),
                                     tasksByPriority |-> processTaskPriorityData(stats)]])
     \/ dashboard' = loaded([dashboard EXCEPT
                               !.error = Some("Failed to load dashboard data")])
  /\ UNCHANGED <<summaryPage, minutes>>
  /\ Offstage

\* a minute passes; neither page's effect has registered a timer
Tick ==
  /\ minutes < MaxMinutes
  /\ dashboard.mounted \/ summaryPage.mounted
  /\ minutes' = minutes + 1
  /\ UNCHANGED <<dashboard, summaryPage>>
  /\ Offstage

NextPages ==
  \/ SummaryMounts
  \/ SummarySettles
  \/ DashboardMounts
  \/ DashboardSettles
  \/ Tick

SpecPages == InitPages /\ [][NextPages]_vars

\* ------------------------------------------------- reading a handled request
Served == req.op # "none"
Ran(name) == \E k \in 1..Len(res.ran) : res.ran[k] = name
HandlerRan == Served /\ res.ran[Len(res.ran)] = req.op
\* auth attached a user to the request: the chain went past it
Authenticated == Served /\ Len(res.ran) >= 2 /\ res.ran[1] = "auth"
Requester == req.token.uid
StoreUnchanged == users = pre.users /\ entries = pre.entries

\* ------------------------------------------------------------------ C1
\* C1: deleteUser on a target T whose role is admin: if T is the only admin the
\* response is 400 and the store is unchanged; if at least two users are admins
\* the response is 200 and exactly T is removed from the store.
C1_DeleteAdmin ==
  (/\ req.op = "deleteUser" /\ HandlerRan
   /\ req.userId \in DOMAIN pre.users
   /\ pre.users[req.userId].role = "admin")
  => IF Cardinality({i \in DOMAIN pre.users : pre.users[i].role = "admin"}) = 1
       THEN res.status = 400 /\ StoreUnchanged
     ELSE /\ res.status = 200
          /\ DOMAIN users = DOMAIN pre.users \ {req.userId}
          /\ \A i \in DOMAIN users : users[i] = pre.users[i]
          /\ entries = pre.entries

\* an administrator has been deleted while another one was left
C1_Witness ==
  /\ req.op = "deleteUser" /\ res.status = 200
  /\ pre.users[req.userId].role = "admin"
  /\ req.userId \notin DOMAIN users
  /\ \E i \in DOMAIN users : users[i].role = "admin"

\* the sole administrator was the target and the request was refused
C1_WitnessLastAdmin ==
  /\ req.op = "deleteUser" /\ res.status = 400
  /\ {i \in DOMAIN pre.users : pre.users[i].role = "admin"} = {req.userId}

\* ------------------------------------------------------------------ C2
\* C2: starting with at least one admin, after any sequence of requests, each
\* run to completion before the next, the store still holds an admin.
C2_AlwaysAnAdmin == \E i \in DOMAIN users : users[i].role = "admin"

\* ------------------------------------------------------------------ C3
\* the self-update of a non-admin that carries role and/or isActive
C3_Case ==
  /\ req.op = "updateUser" /\ Authenticated
  /\ pre.users[Requester].role # "admin"
  /\ req.userId = Requester
  /\ (Has(req.body.role) \/ Has(req.body.isActive))

\* C3 as stated: such a request is answered 200 and the stored role and
\* isActive of the user are as before.
C3_Original ==
  C3_Case => /\ res.status = 200
             /\ users[Requester].role = pre.users[Requester].role
             /\ users[Requester].isActive = pre.users[Requester].isActive

\* C3 amended: the stored role and isActive are as before in every case; the
\* answer is 200 when no field rule is violated and the username and email of
\* the body are not those of another user, and 400 otherwise.
C3_SelfUpdateKeepsRole ==
  C3_Case =>
    /\ users[Requester].role = pre.users[Requester].role
    /\ users[Requester].isActive = pre.users[Requester].isActive
    /\ LET b == req.body
           ruleViolated ==
             \/ Has(b.username) /\ Len(Val(b.username)) < 3
             \/ Has(b.email) /\ Val(b.email) \notin WellFormedEmails
             \/ Has(b.role) /\ Val(b.role) \notin {"admin", "user", "manager"}
             \/ Has(b.isActive)
                  /\ Val(b.isActive) \notin {"true", "false", "'true'", "'false'", "1", "0"}
           taken ==
             \E i \in DOMAIN pre.users \ {Requester} :
               \/ Has(b.username) /\ pre.users[i].username = Val(b.username)
               \/ Has(b.email) /\ pre.users[i].email = Val(b.email)
       IN res.status = IF ruleViolated \/ taken THEN 400 ELSE 200

\* a non-admin asked for role admin on itself and was answered 200
C3_Witness ==
  /\ C3_Case /\ res.status = 200
  /\ req.body.role = Some("admin")
  /\ users[Requester].role # "admin"

\* ------------------------------------------------------------------ C4
\* what the routes of /api/users require of an authenticated requester
C4_Allowed ==
  IF req.op \in {"getUsers", "getUserStats", "deleteUser"}
    THEN pre.users[Requester].role = "admin"
  ELSE pre.users[Requester].role = "admin" \/ Requester = req.userId

\* C4: for an authenticated requester, GET /api/users, GET /api/users/stats and
\* DELETE /api/users/:userId reach their handler iff the requester is an admin;
\* GET and PUT /api/users/:userId iff it is an admin or the user named by
\* :userId; otherwise the answer is 403 and the store is unchanged.
C4_UserRoutesAccess ==
  (req.op \in UsersOps /\ Authenticated) =>
    /\ HandlerRan <=> C4_Allowed
    /\ ~C4_Allowed => res.status = 403 /\ StoreUnchanged

\* a manager asked to update another user and was refused
C4_Witness ==
  /\ req.op = "updateUser" /\ Authenticated
  /\ pre.users[Requester].role = "manager"
  /\ req.userId # Requester
  /\ res.status = 403

\* ------------------------------------------------------------------ C5
\* the routes of routes/users.js and of the workload router: all begin with auth
C5_Protected == UsersOps \cup WorkloadOps

\* the token is missing, unverifiable or expired, or names a user that was
\* absent or inactive when the request arrived
C5_Unidentified ==
  \/ req.token.kind # "valid"
  \/ req.token.uid \notin DOMAIN pre.users
  \/ ~pre.users[req.token.uid].isActive

\* C5: on every protected route a request without a usable token, or whose
\* token names an absent or deactivated user, is answered 401, nothing after
\* auth runs and the store is unchanged.
C5_IdentityCheck ==
  (Served /\ req.op \in C5_Protected /\ C5_Unidentified) =>
    /\ res.status = 401
    /\ res.ran = <<"auth">>
    /\ StoreUnchanged

\* a deleted user's token (the user's entry is still stored) was refused
C5_Witness ==
  /\ req.op \in WorkloadOps /\ req.token.kind = "valid"
  /\ req.token.uid \notin DOMAIN pre.users
  /\ \E i \in DOMAIN pre.entries : pre.entries[i].developer = req.token.uid
  /\ res.status = 401

\* a deactivated user's token was refused
C5_WitnessDeactivated ==
  /\ req.op \in UsersOps /\ req.token.kind = "valid"
  /\ req.token.uid \in DOMAIN pre.users
  /\ ~pre.users[req.token.uid].isActive
  /\ res.status = 401

\* ------------------------------------------------------------------ C6
\* GET /api/workload was answered with a list to a requester who is no admin
C6_Case ==
  /\ req.op = "getWorkloads" /\ HandlerRan /\ res.status = 200
  /\ pre.users[Requester].role # "admin"

\* the requester's entries that pass the filters of the query
C6_OwnMatching ==
  {i \in DOMAIN pre.entries :
     /\ pre.entries[i].developer = Requester
     /\ (Has(req.query.startDate) /\ Has(req.query.endDate) =>
           /\ pre.entries[i].date >= Val(req.query.startDate)
           /\ pre.entries[i].date <= Val(req.query.endDate))
     /\ (Has(req.query.project) => pre.entries[i].project = Val(req.query.project))
     /\ (Has(req.query.status) => pre.entries[i].status = Val(req.query.status))
     /\ (Has(req.query.taskType) => pre.entries[i].taskType = Val(req.query.taskType))}

C6_Returned == {res.body.workloads[k]._id : k \in 1..Len(res.body.workloads)}

C6_WitnessOwn == C6_Case /\ C6_Returned # {}

\* ------------------------------------------------------------------ C7
C7_Case == req.op \in {"updateWorkload", "deleteWorkload"} /\ HandlerRan

C7_MayModify ==
  \/ pre.users[Requester].role = "admin"
  \/ pre.entries[req.id].developer = Requester

\* C7: PUT and DELETE /api/workload/:id answer 404 when no entry has the id and
\* otherwise 403 when the requester is neither the entry's developer nor an
\* admin, the store unchanged in both cases; and no request changes or removes
\* a stored entry unless it is such a PUT or DELETE on that entry by its
\* developer or an admin.
C7_ModifyOwnOnly ==
  /\ C7_Case =>
       IF req.id \notin DOMAIN pre.entries THEN res.status = 404 /\ StoreUnchanged
       ELSE ~C7_MayModify => res.status = 403 /\ StoreUnchanged
  /\ Served =>
       \A i \in DOMAIN pre.entries :
         (i \notin DOMAIN entries \/ entries[i] # pre.entries[i]) =>
           /\ C7_Case /\ req.id = i
           /\ C7_MayModify

\* a user who is neither the developer of the entry nor an admin was refused
C7_Witness ==
  /\ C7_Case /\ req.id \in DOMAIN pre.entries
  /\ ~C7_MayModify
  /\ res.status = 403

\* there was no such entry
C7_WitnessNotFound == C7_Case /\ req.id \notin DOMAIN pre.entries /\ res.status = 404

\* the developer of an entry changed it
C7_WitnessChanged ==
  /\ req.op = "updateWorkload" /\ res.status = 200
  /\ pre.users[Requester].role # "admin"
  /\ entries[req.id] # pre.entries[req.id]

\* ------------------------------------------------------------------ C8
C8_Case == req.op = "getWorkloadStats" /\ HandlerRan

\* the developers, still stored as users, of the entries within the date range
C8_DevelopersInRange ==
  {pre.entries[i].developer :
     i \in {j \in DOMAIN pre.entries :
              /\ pre.entries[j].date >= Val(req.query.startDate)
              /\ pre.entries[j].date <= Val(req.query.endDate)}}
  \cap DOMAIN pre.users

\* what C8 says of the answer
C8_Rule ==
  IF pre.users[Requester].role # "admin"
    THEN IF Has(req.query.developerId) /\ Val(req.query.developerId) # Requester
           THEN res.status = 403
         ELSE /\ res.status = 200
              /\ \A st \in res.body.stats :
                   st._id = Requester /\ st.developer._id = Requester
  ELSE ~Has(req.query.developerId) =>
         /\ res.status = 200
         /\ {st._id : st \in res.body.stats} = C8_DevelopersInRange

\* C8 as stated, whatever the query carries besides developerId
C8_Original == C8_Case => C8_Rule

\* C8 amended: when startDate and endDate are both given, a non-admin asking
\* for another user's statistics gets 403, a non-admin asking for its own or
\* naming nobody gets 200 with records about itself only, and an admin naming
\* nobody gets 200 with a record for every user that has entries in the range;
\* when a date is missing the answer is 400.
C8_StatsAccess ==
  C8_Case =>
    IF Has(req.query.startDate) /\ Has(req.query.endDate) THEN C8_Rule
    ELSE res.status = 400

\* a non-admin asked for the statistics of another user and was refused
C8_Witness ==
  /\ C8_Case /\ res.status = 403
  /\ pre.users[Requester].role # "admin"
  /\ Val(req.query.developerId) # Requester

\* an admin, naming nobody, got the record of another user
C8_WitnessAdmin ==
  /\ C8_Case /\ res.status = 200
  /\ pre.users[Requester].role = "admin" /\ ~Has(req.query.developerId)
  /\ \E st \in res.body.stats : st._id # Requester

\* a non-admin got its own record
C8_WitnessOwn ==
  /\ C8_Case /\ res.status = 200
  /\ pre.users[Requester].role # "admin"
  /\ \E st \in res.body.stats : st._id = Requester

\* ------------------------------------------------------------------ C9
\* the user records that the JSON body of the response carries
C9_UserRecords ==
  CASE res.body.kind \in {"user", "session"} -> {res.body.user}
    [] res.body.kind = "userList" ->
         {res.body.users[k] : k \in 1..Len(res.body.users)}
    [] res.body.kind = "workload" ->
         {res.body.workload.developer[k] : k \in 1..Len(res.body.workload.developer)}
    [] res.body.kind = "workloadList" ->
         UNION {{res.body.workloads[k].developer[j] :
                   j \in 1..Len(res.body.workloads[k].developer)} :
                k \in 1..Len(res.body.workloads)}
    [] res.body.kind = "workloadStats" -> {st.developer : st \in res.body.stats}
    [] OTHER -> {}

\* C9: no JSON response carries a password: not at its top level, and not in
\* any user record of it, the expanded developer of an entry included.
C9_NoPassword ==
  Served =>
    /\ "password" \notin DOMAIN res.body
    /\ \A u \in C9_UserRecords : "password" \notin DOMAIN u

\* an entry was returned with its developer expanded
C9_Witness ==
  /\ req.op \in {"createWorkload", "getWorkloads", "updateWorkload"}
  /\ C9_UserRecords # {}

\* a user record was returned by the user and auth endpoints
C9_WitnessUsers ==
  /\ req.op \in {"getUsers", "getUserById", "updateUser", "login", "register"}
  /\ C9_UserRecords # {}

\* ----------------------------------------------------------------- C10
\* a negative hoursSpent reached the handler, which for PUT found the entry
\* and the requester allowed to change it
C10_Case ==
  /\ req.op \in {"createWorkload", "updateWorkload"} /\ HandlerRan
  /\ Has(req.body.hoursSpent) /\ Val(req.body.hoursSpent) < 0
  /\ req.op = "updateWorkload" => req.id \in DOMAIN pre.entries /\ C7_MayModify

\* C10: POST /api/workload and PUT /api/workload/:id with hoursSpent < 0 are
\* answered 400 with the list of violations, and no entry is created or changed.
C10_NegativeHours ==
  C10_Case =>
    /\ res.status = 400
    /\ res.body.kind = "errors"
    /\ StoreUnchanged

\* ----------------------------------------------------------------- C11
\* C11: every stored entry has hoursSpent >= 0 and a taskType, a status and a
\* priority of the fixed enums, whatever createWorkload and updateWorkload
\* requests were made.
C11_EntriesValid ==
  \A i \in DOMAIN entries :
    /\ entries[i].hoursSpent >= 0
    /\ entries[i].taskType \in
         {"development", "bug-fix", "review", "meeting", "documentation", "other"}
    /\ entries[i].status \in {"planned", "in-progress", "completed", "blocked"}
    /\ entries[i].priority \in {"high", "medium", "low"}

\* an update with a negative hoursSpent, or with a value outside an enum, was
\* tried by a requester allowed to change the entry
C11_Witness ==
  /\ req.op = "updateWorkload" /\ HandlerRan
  /\ req.id \in DOMAIN pre.entries /\ C7_MayModify
  /\ \/ req.body.hoursSpent = Some(-1)
     \/ req.body.taskType = Some("coding")
  /\ req.id \in DOMAIN entries

\* ----------------------------------------------------------------- C12
\* the routes that declare a rule set, and the violations of the request
C12_Validated ==
  {"createWorkload", "updateWorkload", "getWorkloadStats", "getProjectSummary",
   "updateUser"}

C12_Violations ==
  CASE req.op = "createWorkload" -> workloadCreateValidation(req.body)
    [] req.op = "updateWorkload" -> workloadUpdateValidation(req.body)
    [] req.op \in {"getWorkloadStats", "getProjectSummary"} ->
         dateRangeValidation(req.query)
    [] req.op = "updateUser" -> userUpdateValidation(req.body)

\* C12: on each of these routes a request that got as far as the rule set and
\* violates a rule is answered 400 with all its violations, and the store is
\* left as it was.
C12_ValidationFirst ==
  (/\ Served /\ req.op \in C12_Validated
   /\ Len(res.ran) >= Len(Route(req.op)) - 1
   /\ C12_Violations # {}) =>
    /\ res.status = 400
    /\ res.body = ErrorsBody(C12_Violations)
    /\ StoreUnchanged

\* ----------------------------------------------------------------- C13
\* C13: the developer of every stored entry is a stored user, whatever
\* createWorkload, updateWorkload, deleteWorkload and deleteUser requests were made.
C13_OwnerExists == \A i \in DOMAIN entries : entries[i].developer \in DOMAIN users

\* ----------------------------------------------------------------- C14
\* C14: no two stored users have the same username, and no two the same email,
\* whatever register and updateUser requests were made one after the other.
C14_UniqueUsers ==
  \A i, j \in DOMAIN users :
    i # j => users[i].username # users[j].username /\ users[i].email # users[j].email

\* a user was registered, or a username or email changed, while another user
\* was stored
C14_Witness ==
  /\ req.op \in {"register", "updateUser"} /\ res.status \in {200, 201}
  /\ Cardinality(DOMAIN users) >= 2
  /\ users # pre.users
  /\ \E i \in DOMAIN users :
       i \notin DOMAIN pre.users \/ users[i].email # pre.users[i].email

\* ----------------------------------------------------------------- C15
\* the email or the username of the body is that of a stored user other than `except`
C15_Duplicate(except) ==
  \E i \in DOMAIN pre.users \ {except} :
    \/ Has(req.body.email) /\ pre.users[i].email = Val(req.body.email)
    \/ Has(req.body.username) /\ pre.users[i].username = Val(req.body.username)

\* C15: register with the email or username of a stored user, and updateUser
\* with the email or username of another stored user, are answered 400 and
\* leave the store unchanged.
C15_DuplicateRefused ==
  /\ (req.op = "register" /\ HandlerRan /\ C15_Duplicate(0)) =>
       res.status = 400 /\ StoreUnchanged
  /\ (req.op = "updateUser" /\ HandlerRan /\ C15_Duplicate(req.userId)) =>
       res.status = 400 /\ StoreUnchanged

\* an update asked for the email of another user, nothing else being wrong
C15_Witness ==
  /\ req.op = "updateUser" /\ HandlerRan /\ C15_Duplicate(req.userId)
  /\ res.body = ErrorBody("Email or username is already taken")

\* a registration asked for the username of a stored user
C15_WitnessRegister ==
  /\ req.op = "register" /\ HandlerRan /\ C15_Duplicate(0)
  /\ res.body = ErrorBody("User already exists with this email or username")

\* ----------------------------------------------------------------- C16
C16_Guards == {"checkRole(['admin'])", "checkUserAccess"}
C16_RuleSets ==
  {"userUpdateValidation", "workloadCreateValidation", "workloadUpdateValidation",
   "dateRangeValidation"}
C16_RanRuleSet == \E k \in 1..Len(res.ran) : res.ran[k] \in C16_RuleSets

\* the requester fails the role guard or the user-ownership guard of the route
C16_GuardFails ==
  /\ req.op \in UsersOps /\ Authenticated
  /\ pre.users[Requester].role # "admin"
  /\ req.op \in {"getUserById", "updateUser"} => Requester # req.userId

\* the requester fails the owner-or-admin rule of the entry it names
C16_OwnerRuleFails ==
  /\ req.op \in {"updateWorkload", "deleteWorkload"} /\ Authenticated
  /\ req.id \in DOMAIN pre.entries
  /\ ~C7_MayModify

\* the place of a step in the order identity, authorization, validation, handler
C16_Rank(name) ==
  IF name = "auth" THEN 1
  ELSE IF name \in C16_Guards THEN 2
  ELSE IF name \in C16_RuleSets THEN 3
  ELSE 4

\* C16 as stated: a request that fails the identity check, a guard or the
\* owner-or-admin rule is rejected with none of its fields validated and the
\* store untouched.
C16_Original ==
  (/\ Served /\ req.op \in UsersOps \cup WorkloadOps
   /\ (C5_Unidentified \/ C16_GuardFails \/ C16_OwnerRuleFails)) =>
    /\ res.status \in {401, 403}
    /\ ~C16_RanRuleSet
    /\ StoreUnchanged

\* C16 amended: the steps of every route run in the order identity check,
\* guard, field validation, handler; a request that fails the identity check
\* is answered 401 by the first step and one that fails a role or
\* user-ownership guard 403 by the second, before any validation or handler;
\* one that fails the owner-or-admin rule of an entry is answered 403 by the
\* handler, after the rule set of the route has run, with the store unchanged.
C16_StepOrder ==
  (Served /\ req.op \in UsersOps \cup WorkloadOps) =>
    /\ \A k, l \in 1..Len(res.ran) :
         k < l => C16_Rank(res.ran[k]) < C16_Rank(res.ran[l])
    /\ C5_Unidentified =>
         res.status = 401 /\ res.ran = <<"auth">> /\ StoreUnchanged
    /\ C16_GuardFails =>
         /\ res.status = 403 /\ Len(res.ran) = 2 /\ res.ran[2] \in C16_Guards
         /\ StoreUnchanged
    /\ C16_OwnerRuleFails =>
         /\ res.status = 403 /\ HandlerRan /\ StoreUnchanged
         /\ req.op = "updateWorkload" => C16_RanRuleSet

\* an update of another user's entry was refused after its fields were validated
C16_Witness ==
  /\ C16_OwnerRuleFails /\ req.op = "updateWorkload"
  /\ res.status = 403 /\ C16_RanRuleSet

\* an update of another user was refused by the guard
C16_WitnessGuard ==
  /\ C16_GuardFails /\ req.op = "updateUser" /\ res.status = 403

\* ----------------------------------------------------------------- C20
C20_Case == req.op = "createWorkload" /\ HandlerRan

\* one entry more is stored, it belongs to the requester, the others are as
\* they were, and the answer is 201 with the new entry
C20_Created ==
  /\ res.status = 201
  /\ \E n \in DOMAIN entries \ DOMAIN pre.entries :
       /\ DOMAIN entries = DOMAIN pre.entries \cup {n}
       /\ entries[n].developer = Requester
       /\ res.body.kind = "workload"
       /\ res.body.workload._id = n
       /\ res.body.workload.developer = Some(selectNoPassword(Requester, users[Requester]))
       /\ res.body.workload.project = Val(req.body.project)
       /\ res.body.workload.hoursSpent = Val(req.body.hoursSpent)
  /\ \A i \in DOMAIN pre.entries : entries[i] = pre.entries[i]
  /\ users = pre.users

C17_Case == req.op = "getProjectSummary" /\ res.status = 200

\* the stored entries dated within [startDate, endDate]
C17_InRange ==
  {i \in DOMAIN pre.entries :
     /\ pre.entries[i].date >= Val(req.query.startDate)
     /\ pre.entries[i].date <= Val(req.query.endDate)}

RECURSIVE C17_Hours(_)
C17_Hours(ids) ==
  IF ids = {} THEN 0
  ELSE pre.entries[Max(ids)].hoursSpent + C17_Hours(ids \ {Max(ids)})

C17_GroupRight(g) ==
  LET own == {i \in C17_InRange : pre.entries[i].project = g.project}
  IN /\ g.taskCount = Cardinality(own)
     /\ g.taskCount >= 1
     /\ g.totalHours = C17_Hours(own)
     /\ g.completedTasks =
          Cardinality({i \in own : pre.entries[i].status = "completed"})
     /\ g.blockedTasks =
          Cardinality({i \in own : pre.entries[i].status = "blocked"})
     /\ g.completionRate.den # 0
     /\ g.completionRate.num * g.taskCount
          = g.completedTasks * 100 * g.completionRate.den

\* C17: getProjectSummary returns exactly one group per project that has an
\* entry dated within [startDate, endDate] inclusive; the group's totalHours
\* is the sum of hoursSpent of those entries, taskCount their number (at least
\* 1), completedTasks and blockedTasks the number of them with status completed
\* and blocked, completionRate = completedTasks / taskCount * 100; the groups
\* come in non-increasing order of totalHours.
C17_ProjectSummary ==
  C17_Case =>
    /\ Len(res.body.summary)
         = Cardinality({pre.entries[i].project : i \in C17_InRange})
    /\ {res.body.summary[k].project : k \in 1..Len(res.body.summary)}
         = {pre.entries[i].project : i \in C17_InRange}
    /\ \A k \in 1..Len(res.body.summary) : C17_GroupRight(res.body.summary[k])
    /\ \A k \in 1..(Len(res.body.summary) - 1) :
         res.body.summary[k].totalHours >= res.body.summary[k + 1].totalHours

\* several groups with different totals, one of them partly completed, an entry on
\* the last day of the range and an entry outside the range
C17_Witness ==
  /\ C17_Case
  /\ Len(res.body.summary) >= 2
  /\ res.body.summary[1].totalHours > res.body.summary[2].totalHours
  /\ \E k \in 1..Len(res.body.summary) :
       /\ res.body.summary[k].completedTasks >= 1
       /\ res.body.summary[k].completedTasks < res.body.summary[k].taskCount
  /\ \E i \in C17_InRange : pre.entries[i].date = Val(req.query.endDate)
  /\ C17_InRange # DOMAIN pre.entries

\* ------------------------------------------------------------------ C18
C18_Case == req.op = "getWorkloadStats" /\ res.status = 200

\* the user filter in force: the one asked for, else the requester's own id
\* unless the requester is an administrator
C18_Filter ==
  IF Has(req.query.developerId) THEN req.query.developerId
  ELSE IF pre.users[Requester].role # "admin" THEN Some(Requester)
  ELSE None

C18_Match ==
  {i \in DOMAIN pre.entries :
     /\ pre.entries[i].date >= Val(req.query.startDate)
     /\ pre.entries[i].date <= Val(req.query.endDate)
     /\ (Has(C18_Filter) => pre.entries[i].developer = Val(C18_Filter))}

\* the users who own a matching entry
C18_Owners == {pre.entries[i].developer : i \in C18_Match} \cap DOMAIN pre.users

RECURSIVE C18_CategoryTotal(_)
C18_CategoryTotal(byType) ==
  IF byType = {} THEN 0
  ELSE LET c == CHOOSE x \in byType : TRUE
       IN c.totalHours + C18_CategoryTotal(byType \ {c})

C18_RecordRight(s) ==
  LET own == {i \in C18_Match : pre.entries[i].developer = s._id}
      ofType(t) == {i \in own : pre.entries[i].taskType = t}
  IN /\ \A t \in {pre.entries[i].taskType : i \in own} :
          Cardinality({c \in s.workloadByType : c.taskType = t}) = 1
     /\ \A c \in s.workloadByType :
          /\ ofType(c.taskType) # {}
          /\ c.totalHours = C17_Hours(ofType(c.taskType))
          /\ c.taskCount = Cardinality(ofType(c.taskType))
     /\ s.totalHours = C18_CategoryTotal(s.workloadByType)

\* C18: the workload statistics hold exactly one record per user who owns a
\* matching entry (dated within the range, and owned by the filter's user when
\* a filter is in force); in a record every task category with a matching
\* entry of that user appears exactly once, with totalHours the sum of
\* hoursSpent and taskCount the number of those entries, and the record's
\* totalHours is the sum of its per-category totalHours.
C18_Stats ==
  C18_Case =>
    /\ \A d \in C18_Owners : Cardinality({s \in res.body.stats : s._id = d}) = 1
    /\ \A s \in res.body.stats : s._id \in C18_Owners /\ C18_RecordRight(s)

\* an administrator's unfiltered statistics: two users' records, one of them
\* with two categories, a category of several entries, an entry out of range
C18_Witness ==
  /\ C18_Case
  /\ C18_Filter = None
  /\ Cardinality(res.body.stats) >= 2
  /\ \E s \in res.body.stats : Cardinality(s.workloadByType) >= 2
  /\ \E s \in res.body.stats : \E c \in s.workloadByType : c.taskCount >= 2
  /\ C18_Match # DOMAIN pre.entries

\* ------------------------------------------------------------------ C19
C19_Case == req.op \in {"getWorkloads", "getUsers"} /\ res.status = 200

C19_PageNo == IF Has(req.query.page) THEN Val(req.query.page) ELSE 1
C19_Size == IF Has(req.query.limit) THEN Val(req.query.limit) ELSE 10

\* the ids of the records that match the request's filters
C19_Matching ==
  IF req.op = "getWorkloads"
    THEN {i \in DOMAIN pre.entries :
            /\ (Has(req.query.startDate) /\ Has(req.query.endDate) =>
                  /\ pre.entries[i].date >= Val(req.query.startDate)
                  /\ pre.entries[i].date <= Val(req.query.endDate))
            /\ (Has(req.query.project) =>
                  pre.entries[i].project = Val(req.query.project))
            /\ (Has(req.query.status) =>
                  pre.entries[i].status = Val(req.query.status))
            /\ (Has(req.query.taskType) =>
                  pre.entries[i].taskType = Val(req.query.taskType))
            /\ (pre.users[Requester].role # "admin" =>
                  pre.entries[i].developer = Requester)}
  ELSE {i \in DOMAIN pre.users :
          /\ (Has(req.query.role) => pre.users[i].role = Val(req.query.role))
          /\ (Has(req.query.search) =>
                \/ regexTest(Val(req.query.search), pre.users[i].username)
                \/ regexTest(Val(req.query.search), pre.users[i].email))}

\* the date a record is sorted by: an entry's date, a user's place in the
\* order of creation
C19_SortKey(i) == IF req.op = "getWorkloads" THEN pre.entries[i].date ELSE i

C19_Ids(body) ==
  IF req.op = "getWorkloads"
    THEN [k \in 1..Len(body.workloads) |-> body.workloads[k]._id]
  ELSE [k \in 1..Len(body.users) |-> body.users[k]._id]

\* what the same request returns when it asks for page n
C19_PageIds(n) ==
  C19_Ids(Handler([req EXCEPT !.query.page = Some(n)], Requester, {},
                  pre.users, pre.entries).body)

C19_Total == Cardinality(C19_Matching)
C19_First == (C19_PageNo - 1) * C19_Size + 1
C19_Last == Min2(C19_PageNo * C19_Size, C19_Total)

\* the k-th record of the page stands at position C19_First + k - 1 of the
\* matching records in descending order of date, however equal dates are ordered
C19_InPlace(ids, k) ==
  /\ ids[k] \in C19_Matching
  /\ Cardinality({j \in C19_Matching : C19_SortKey(j) > C19_SortKey(ids[k])})
       <= C19_First + k - 2
  /\ Cardinality({j \in C19_Matching : C19_SortKey(j) >= C19_SortKey(ids[k])})
       >= C19_First + k - 1
  /\ \A l \in 1..Len(ids) : ids[l] = ids[k] => l = k

\* C19: for a page size L >= 1 and a page number p >= 1, with T matching
\* records, GET /api/workload and GET /api/users answer pagination.total = T and
\* pagination.pages = ceil(T / L); the page holds the records at positions
\* (p-1)*L+1 .. min(p*L, T) of the matching records sorted by date descending,
\* never more than L; the pages 1..pages together hold every matching record
\* exactly once; an absent page is page 1 and an absent size is 10.
C19_Pagination ==
  C19_Case /\ C19_Size >= 1 /\ C19_PageNo >= 1 =>
    /\ res.body.pagination.total = C19_Total
    /\ res.body.pagination.page = C19_PageNo
    /\ res.body.pagination.pages * C19_Size >= C19_Total
    /\ (res.body.pagination.pages - 1) * C19_Size < C19_Total
    /\ Len(C19_Ids(res.body))
         = (IF C19_Last >= C19_First THEN C19_Last - C19_First + 1 ELSE 0)
    /\ Len(C19_Ids(res.body)) <= C19_Size
    /\ \A k \in 1..Len(C19_Ids(res.body)) : C19_InPlace(C19_Ids(res.body), k)
    /\ \A i \in C19_Matching :
         Cardinality({nk \in (1..res.body.pagination.pages) \X (1..C19_Size) :
                        /\ nk[2] <= Len(C19_PageIds(nk[1]))
                        /\ C19_PageIds(nk[1])[nk[2]] = i}) = 1

\* fifteen matching entries and no page size given: page 2 holds the last five
C19_Witness ==
  /\ C19_Case
  /\ req.op = "getWorkloads"
  /\ ~Has(req.query.limit)
  /\ C19_PageNo = 2
  /\ C19_Total = 15
  /\ res.body.pagination.pages = 2
  /\ Len(res.body.workloads) = 5

\* ------------------------------------------------------------------ C25
C25_Reads == {"getWorkloads", "getWorkloadStats", "getProjectSummary"}

C25_Case ==
  /\ req.op \in C25_Reads
  /\ Authenticated
  /\ pre.users[Requester].role # "admin"

\* the store without the entries owned by users other than the requester
C25_OwnEntries ==
  [i \in {j \in DOMAIN pre.entries : pre.entries[j].developer = Requester}
     |-> pre.entries[i]]

C25_SameAsOnOwn ==
  /\ res.status = Serve(req, pre.users, C25_OwnEntries).status
  /\ res.body = Serve(req, pre.users, C25_OwnEntries).body

\* C25: what an entry read endpoint (list, statistics, project summary)
\* answers to a non-administrator is the same in any two stores that differ
\* only in entries owned by other users: the answer is the one the store
\* holding the requester's own entries alone would give.
C25_ReadsOwnOnly == C25_Case => C25_SameAsOnOwn

\* ------------------------------------------------------------------ C26
\* the users who hold the admin role after the step and did not before it
C26_NewAdmins ==
  {i \in DOMAIN users' :
     /\ users'[i].role = "admin"
     /\ (i \in DOMAIN users => users[i].role # "admin")}

\* the step answers an updateUser request authenticated as an administrator
C26_ByAdminUpdate ==
  /\ req'.op = "updateUser"
  /\ Len(res'.ran) >= 2 /\ res'.ran[1] = "auth"
  /\ req'.token.uid \in DOMAIN users
  /\ users[req'.token.uid].role = "admin"

\* C26: a user holds the admin role only if it held it in the initial store
\* or received it through an updateUser request authenticated as an
\* administrator: every step that makes a user an administrator is such a
\* request, so requests without an administrator's token never produce one.
C26_AdminOnlyFromAdmin == [][C26_NewAdmins # {} => C26_ByAdminUpdate]_vars

\* ------------------------------------------------------------------ C27
\* updateWorkload ran for a non-admin requester on an entry they own
C27_Case ==
  /\ req.op = "updateWorkload" /\ HandlerRan
  /\ pre.users[Requester].role # "admin"
  /\ req.id \in DOMAIN pre.entries
  /\ pre.entries[req.id].developer = Requester

\* C27: the developer (owner) of an entry never changes after creation: an
\* updateWorkload request by the non-admin owner, whatever its body (a
\* developer field included), leaves the entry's developer as it was, equal to
\* the user who created the entry.
C27_OwnerFixed ==
  C27_Case =>
    /\ req.id \in DOMAIN entries
    /\ entries[req.id].developer = pre.entries[req.id].developer
    /\ entries[req.id].developer = createdBy[req.id]

\* ------------------------------------------------------------------ C28
\* a request carries the unexpired token of a user who exists and is active,
\* after that token went through a logout
C28_Case ==
  /\ Served
  /\ req.token.kind = "valid"
  /\ req.token.uid \in loggedOut
  /\ req.token.uid \in DOMAIN pre.users
  /\ pre.users[req.token.uid].isActive

\* C28: POST /api/auth/logout changes no server state and revokes nothing: a
\* token that went through a logout is still accepted by the identity check
\* of every later request, as long as it is unexpired and its user exists and
\* is active.
C28_LogoutRevokesNothing ==
  /\ (Served /\ req.op = "logout" => StoreUnchanged)
  /\ (C28_Case => Authenticated)

\* the profile is served to a token that has logged out before
C28_Witness ==
  /\ C28_Case
  /\ req.op = "getProfile"
  /\ res.status = 200

\* ------------------------------------------------------------------ C22
\* both requests were answered 200 for the two different administrators,
\* each after counting two administrators
C22_BothPassed ==
  /\ \A s \in Slots : /\ flights[s].status = 200
                      /\ flights[s].role = "admin"
                      /\ flights[s].adminCount = 2
  /\ flights[1].target # flights[2].target

\* C22: with exactly two administrators in the store, two deleteUser requests
\* for the two different administrators, interleaved at their await points,
\* can both pass the adminCount check and both delete; the store is left
\* without an administrator, and that is the only way deleteUser leaves it so:
\* whenever no administrator is left, both requests counted two.
C22_RaceOnly ==
  flights # NoFlights /\ AdminIds(users) = {} => C22_BothPassed

\* no administrator is left after the two interleaved deletions
C22_Witness ==
  /\ flights # NoFlights
  /\ AdminIds(users) = {}
  /\ C22_BothPassed

\* C21: when AuthProvider.logout has settled, whether POST /api/auth/logout
\* succeeded or failed, the token is gone from localStorage, the default
\* Authorization header is gone and user is null.
C21_LogoutSettled == lastSettled.fn = "logout"

C21_LogoutClears ==
  C21_LogoutSettled =>
    /\ storedToken = None
    /\ authHeader = None
    /\ currentUser = None

\* the POST failed and the finally block has run
C21_Witness ==
  /\ lastSettled = [fn |-> "logout", ok |-> FALSE]
  /\ signedOut
  /\ storedToken = None
  /\ authHeader = None
  /\ currentUser = None
  /\ calls = {}

\* C29: once logout has finished, user stays null and no token is stored until
\* a new login or register is started, whatever calls were in flight.
C29_StaysSignedOut ==
  signedOut => currentUser = None /\ storedToken = None

\* C30: on mount with a stored, non-expired token, loading stays true until the
\* profile fetch settles, so ProtectedRoute never sees loading = false with
\* user = null during the fetch.
C30_Fetching == InFlight("fetchUserProfile")

C30_LoadingUntilProfile ==
  C30_Fetching =>
    /\ loading
    /\ ProtectedRoute(currentUser, loading, {}) # "/login"

\* C23: Dashboard (and ProjectSummary) re-issues its full set of API queries
\* every 5 minutes after it has loaded: a page that loaded 5 minutes ago or
\* earlier has issued a second round.
C23_Loaded(page) == page.mounted /\ ~page.pending
C23_Overdue(page) == C23_Loaded(page) /\ minutes - page.loadedAt >= PollMinutes

C23_Refreshes ==
  /\ C23_Overdue(dashboard) => dashboard.rounds >= 2
  /\ C23_Overdue(summaryPage) => summaryPage.rounds >= 2

\* C24: ProjectSummary, answered with an empty project list, shows total hours
\* 0.0, total tasks 0 and average completion 0.0%, and never divides by zero.
C24_Empty ==
  /\ C23_Loaded(summaryPage)
  /\ summaryPage.error = None
  /\ summaryPage.summaryData.projects = <<>>

C24_Zero == [NaN |-> FALSE, tenths |-> 0]

C24_EmptyShowsZeros ==
  C24_Empty =>
    SummaryCards(summaryPage.summaryData) =
      [totalHours |-> C24_Zero, totalTasks |-> C24_Zero, averageCompletion |-> C24_Zero]
====
